---- MODULE Spec2Model ----
(***************************************************************************)
(* A model of the hydor stack machine (src/src/hydor_vm/vm.rs): the        *)
(* HydorVM fields are the state, one action per arm of the dispatch in     *)
(* execute_bytecode, and the value model and the f64 arithmetic of         *)
(* compute_numeric as operators.  The instruction encoder                  *)
(* (src/src/bytecode/bytecode.rs) and the type checker                     *)
(* (src/src/type_checker/binary_expr.rs) are functions of their arguments; *)
(* each has its arguments and its result as state and one action that      *)
(* applies it.                                                             *)
(***************************************************************************)
EXTENDS Integers, Sequences, FiniteSets, TLC

VARIABLES instructions, constants, string_table, stack, last_pop, ip, status, error,
          overflow_checks,
          make_opcode, make_operands, make_instructions, make_status,
          expression, check_result, checker_errors

\* The arguments of OpCode::make, the buffer it has built when it returns, and how
\* the call ended ("none" while it has not).
encoder == <<make_opcode, make_operands, make_instructions, make_status>>

\* The expression handed to the type checker, what the check returns and the
\* diagnostics the checker has collected.
checker == <<expression, check_result, checker_errors>>

\* overflow_checks: whether the build that runs checks integer overflow (a debug
\* build does, a release build does not).  A run keeps the build it started with.
vars == <<instructions, constants, string_table, stack, last_pop, ip, status, error,
          overflow_checks, encoder, checker>>

(***************************************************************************)
(* Machine integers.  RuntimeValue::IntegerLiteral holds an i32.           *)
(***************************************************************************)
I32_MAX == 2147483647

I32_MIN == -I32_MAX - 1

MAX_STACK == 10000

(***************************************************************************)
(* 64-bit floats.  An f64 is modelled as a record [k, n, d]:               *)
(*   k = "fin"    the f64 nearest to the rational n/d, n/d in lowest terms *)
(*                with d >= 1 (+0.0 is 0/1); it is n/d itself when d is a  *)
(*                power of two                                             *)
(*   k = "nzero"  -0.0                                                     *)
(*   k = "two31"  2147483648.0, the whole number next above I32_MAX        *)
(*   k = "bigp" / "bign"   a finite whole number above 2^31 / below        *)
(*                I32_MIN                                                  *)
(*   k = "fracp" / "fracn" a finite, nonzero, non-whole number of          *)
(*                magnitude below 2^31 whose digits the model does not     *)
(*                track (2^31 / 3, the square root of 2), positive /       *)
(*                negative                                                 *)
(*   k = "pinf" / "ninf" / "nan"                                           *)
(* An operation has a CASE arm only where the f64 result is known: whole   *)
(* operands, operands n/d with d a power of two (f64 is exact on them),    *)
(* the correctly rounded quotient of two such values, and the special      *)
(* values.  A sum or product of an operand that was itself rounded (1/10,  *)
(* 4/3) has no arm, so that reaching it stops TLC with an error and never  *)
(* yields a silent answer.                                                 *)
(***************************************************************************)
Fin(n, d) == [k |-> "fin", n |-> n, d |-> d]

Special(k) == [k |-> k, n |-> 0, d |-> 1]

IsZero(x) == x.k = "nzero" \/ (x.k = "fin" /\ x.n = 0)

\* -1, 0 or 1; a signed zero has its sign, NaN has none (0).
SignOf(x) ==
  CASE x.k = "fin" -> IF x.n > 0 THEN 1 ELSE IF x.n < 0 THEN -1 ELSE 0
    [] x.k = "nzero" -> 0
    [] x.k \in {"two31", "bigp", "fracp", "pinf"} -> 1
    [] x.k \in {"bign", "fracn", "ninf"} -> -1
    [] x.k = "nan" -> 0

\* TRUE when the sign bit is set (-0.0 included).
IsNegative(x) == x.k \in {"nzero", "bign", "fracn", "ninf"} \/ (x.k = "fin" /\ x.n < 0)

Small(x) == x.k = "fin" /\ x.n >= -46340 /\ x.n <= 46340 /\ x.d <= 46340

RECURSIVE GCD(_, _)
GCD(a, b) == IF b = 0 THEN a ELSE GCD(b, a % b)

\* |x| for x # I32_MIN.
Abs(x) == IF x < 0 THEN -x ELSE x

\* floor(log2 m) for m >= 1.
RECURSIVE ILog2(_)
ILog2(m) == IF m < 2 THEN 0 ELSE 1 + ILog2(m \div 2)

RECURSIVE TwoTo(_)
TwoTo(e) == IF e = 0 THEN 1 ELSE 2 * TwoTo(e - 1)

\* n/d with d a power of two: a value f64 holds exactly.
Dyadic(x) == x.k = "fin" /\ x.d = TwoTo(ILog2(x.d))

\* 2^31 mod m and gcd(2^31, m) for 0 < m <= I32_MAX, without leaving the i32 range.
Two31Mod(m) == ((I32_MAX % m) + 1) % m

GcdTwo31(m) == GCD(m, Two31Mod(m))

\* The f64 nearest to n/d for i32 n, d with d # 0 (the quotient of two whole f64's).
FromRatio(n, d) ==
  CASE n = 0 -> IF d < 0 THEN Special("nzero") ELSE Fin(0, 1)
    [] n = I32_MIN /\ d = I32_MIN -> Fin(1, 1)
    [] n = I32_MIN /\ d # I32_MIN ->
         (LET m == Abs(d)
              g == GcdTwo31(m)
          IN  (CASE g > 1 -> IF d < 0 THEN Fin(-(I32_MIN \div g), m \div g)
                                      ELSE Fin(I32_MIN \div g, m \div g)
                 [] g = 1 /\ d = 1 -> Fin(I32_MIN, 1)
                 [] g = 1 /\ d = -1 -> Special("two31")
                 [] g = 1 /\ d > 1 -> Fin(I32_MIN, d)
                 [] g = 1 /\ d < -1 -> Special("fracp")))
    [] n # 0 /\ n # I32_MIN /\ d = I32_MIN ->
         (LET m2 == Abs(n)
              g2 == GcdTwo31(m2)
          IN  IF g2 > 1
              THEN Fin(-(n \div g2), -(I32_MIN \div g2))
              ELSE IF n > 0 THEN Special("fracn") ELSE Special("fracp"))
    [] n # 0 /\ n # I32_MIN /\ d # I32_MIN ->
         (LET g3 == GCD(Abs(n), Abs(d))
              s == IF (n < 0) = (d < 0) THEN 1 ELSE -1
          IN  Fin(s * (Abs(n) \div g3), Abs(d) \div g3))

AddFits(a, b) == IF b >= 0 THEN a <= I32_MAX - b ELSE a >= I32_MIN - b

SubFits(a, b) == IF b <= 0 THEN a <= I32_MAX + b ELSE a >= I32_MIN + b

\* |a| * |b| = 2^31 for nonzero a, b other than I32_MIN.
IsTwo31(a, b) ==
  LET pa == Abs(a)
      pb == Abs(b)
  IN  (I32_MAX % pb) + 1 = pb /\ pa = (I32_MAX \div pb) + 1

\* a * b lies in the i32 range, for nonzero a, b.
MulFits(a, b) ==
  CASE a = I32_MIN -> b = 1
    [] b = I32_MIN -> a = 1
    [] OTHER -> \/ Abs(a) <= I32_MAX \div Abs(b)
                \/ (IsTwo31(a, b) /\ (a < 0) # (b < 0))

\* a * b = 2^31, for nonzero a, b.
ProductIsTwo31(a, b) ==
  CASE a = I32_MIN -> b = -1
    [] b = I32_MIN -> a = -1
    [] OTHER -> IsTwo31(a, b) /\ (a < 0) = (b < 0)

\* 2^31 + n for a whole n.
Two31Plus(n) ==
  CASE n = 0 -> Special("two31")
    [] n > 0 -> Special("bigp")
    [] n < 0 -> Fin((I32_MAX + n) + 1, 1)

\* a + b in f64.
FAdd(x, y) ==
  CASE x.k = "nan" \/ y.k = "nan" -> Special("nan")
    [] x.k = "pinf" /\ y.k # "nan" -> IF y.k = "ninf" THEN Special("nan") ELSE x
    [] x.k = "ninf" /\ y.k # "nan" -> IF y.k = "pinf" THEN Special("nan") ELSE x
    [] x.k \notin {"nan", "pinf", "ninf"} /\ y.k \in {"pinf", "ninf"} -> y
    [] x.k = "nzero" /\ y.k = "nzero" -> x
    [] x.k = "nzero" /\ y.k \notin {"nzero", "nan", "pinf", "ninf"} -> y
    [] x.k \notin {"nzero", "nan", "pinf", "ninf"} /\ y.k = "nzero" -> x
    [] x.k = "two31" /\ y.k = "fin" /\ y.d = 1 -> Two31Plus(y.n)
    [] x.k = "fin" /\ x.d = 1 /\ y.k = "two31" -> Two31Plus(x.n)
    [] x.k = "bigp" /\ y.k = "fin" /\ y.n >= 0 /\ y.d = 1 -> x
    [] x.k = "bign" /\ y.k = "fin" /\ y.n <= 0 /\ y.d = 1 -> x
    [] x.k = "fin" /\ y.k = "fin" /\ x.d = 1 /\ y.d = 1 ->
         IF AddFits(x.n, y.n) THEN Fin(x.n + y.n, 1)
         ELSE IF x.n > 0
         THEN (IF x.n - 1 = I32_MAX - y.n THEN Special("two31") ELSE Special("bigp"))
         ELSE Special("bign")
    [] x.k = "fin" /\ y.k = "fin" /\ (x.d # 1 \/ y.d # 1) /\ Small(x) /\ Small(y)
       /\ Dyadic(x) /\ Dyadic(y) ->
         FromRatio(x.n * y.d + y.n * x.d, x.d * y.d)

\* -x in f64.
FNeg(x) ==
  CASE x.k = "fin" /\ x.n = 0 -> Special("nzero")
    [] x.k = "fin" /\ x.n = I32_MIN /\ x.d = 1 -> Special("two31")
    [] x.k = "fin" /\ x.n = I32_MIN /\ x.d > 1 -> Special("fracp")
    [] x.k = "fin" /\ x.n # 0 /\ x.n # I32_MIN -> Fin(-x.n, x.d)
    [] x.k = "nzero" -> Fin(0, 1)
    [] x.k = "two31" -> Fin(I32_MIN, 1)
    [] x.k = "bigp" -> Special("bign")
    [] x.k = "bign" -> Special("bigp")
    [] x.k = "fracp" -> Special("fracn")
    [] x.k = "fracn" -> Special("fracp")
    [] x.k = "pinf" -> Special("ninf")
    [] x.k = "ninf" -> Special("pinf")
    [] x.k = "nan" -> x

\* a - b in f64.
FSub(x, y) ==
  CASE x.k = "fin" /\ y.k = "fin" /\ x.d = 1 /\ y.d = 1 ->
         IF SubFits(x.n, y.n) THEN Fin(x.n - y.n, 1)
         ELSE IF y.n < 0
         THEN (IF x.n - 1 = I32_MAX + y.n THEN Special("two31") ELSE Special("bigp"))
         ELSE Special("bign")
    [] x.k = "fin" /\ y.k = "fin" /\ (x.d # 1 \/ y.d # 1) /\ Small(x) /\ Small(y)
       /\ Dyadic(x) /\ Dyadic(y) ->
         FromRatio(x.n * y.d - y.n * x.d, x.d * y.d)
    [] x.k # "fin" \/ y.k # "fin" -> FAdd(x, FNeg(y))

\* a * b in f64.
FMul(x, y) ==
  LET neg == IsNegative(x) # IsNegative(y)
  IN  CASE x.k = "nan" \/ y.k = "nan" -> Special("nan")
        [] x.k \in {"pinf", "ninf"} /\ y.k # "nan" ->
             IF IsZero(y) THEN Special("nan")
             ELSE IF neg THEN Special("ninf") ELSE Special("pinf")
        [] x.k \notin {"nan", "pinf", "ninf"} /\ y.k \in {"pinf", "ninf"} ->
             IF IsZero(x) THEN Special("nan")
             ELSE IF neg THEN Special("ninf") ELSE Special("pinf")
        [] x.k \notin {"nan", "pinf", "ninf"} /\ y.k \notin {"nan", "pinf", "ninf"}
           /\ (IsZero(x) \/ IsZero(y)) ->
             IF neg THEN Special("nzero") ELSE Fin(0, 1)
        [] x.k = "two31" /\ y.k = "fin" /\ y.n # 0 /\ y.d = 1 ->
             IF y.n = 1 THEN x
             ELSE IF y.n = -1 THEN Fin(I32_MIN, 1)
             ELSE IF neg THEN Special("bign") ELSE Special("bigp")
        [] x.k \in {"bigp", "bign"} /\ y.k = "fin" /\ y.d = 1 /\ y.n \in {1, -1} ->
             IF neg THEN Special("bign") ELSE Special("bigp")
        [] x.k = "fin" /\ y.k = "fin" /\ x.n # 0 /\ y.n # 0 /\ x.d = 1 /\ y.d = 1 ->
             IF MulFits(x.n, y.n) THEN Fin(x.n * y.n, 1)
             ELSE IF neg THEN Special("bign")
             ELSE IF ProductIsTwo31(x.n, y.n) THEN Special("two31")
             ELSE Special("bigp")
        [] x.k = "fin" /\ y.k = "fin" /\ x.n # 0 /\ y.n # 0 /\ (x.d # 1 \/ y.d # 1)
           /\ Small(x) /\ Small(y) /\ Dyadic(x) /\ Dyadic(y) ->
             FromRatio(x.n * y.n, x.d * y.d)

\* a / b in f64.
FDiv(x, y) ==
  LET neg == IsNegative(x) # IsNegative(y)
  IN  CASE x.k = "nan" \/ y.k = "nan" -> Special("nan")
        [] x.k \in {"pinf", "ninf"} /\ y.k # "nan" ->
             IF y.k \in {"pinf", "ninf"} THEN Special("nan")
             ELSE IF neg THEN Special("ninf") ELSE Special("pinf")
        [] x.k \notin {"nan", "pinf", "ninf"} /\ y.k \in {"pinf", "ninf"} ->
             IF neg THEN Special("nzero") ELSE Fin(0, 1)
        [] x.k \notin {"nan", "pinf", "ninf"} /\ IsZero(y) ->
             IF IsZero(x) THEN Special("nan")
             ELSE IF neg THEN Special("ninf") ELSE Special("pinf")
        [] x.k = "nzero" /\ y.k \notin {"nan", "pinf", "ninf"} /\ ~IsZero(y) ->
             IF neg THEN Special("nzero") ELSE Fin(0, 1)
        [] x.k = "two31" /\ y.k = "fin" /\ y.d = 1 /\ y.n \in {1, -1} ->
             IF y.n = 1 THEN x ELSE Fin(I32_MIN, 1)
        [] x.k \in {"bigp", "bign"} /\ y.k = "fin" /\ y.d = 1 /\ y.n \in {1, -1} ->
             IF neg THEN Special("bign") ELSE Special("bigp")
        [] x.k = "fin" /\ y.k = "fin" /\ y.n # 0 /\ x.d = 1 /\ y.d = 1 ->
             FromRatio(x.n, y.n)
        [] x.k = "fin" /\ y.k = "fin" /\ y.n # 0 /\ (x.d # 1 \/ y.d # 1)
           /\ Small(x) /\ Small(y) /\ Dyadic(x) /\ Dyadic(y) ->
             FromRatio(x.n * y.d, x.d * y.n)

\* floor(log2 |b|) for a nonzero i32 b, and whether |b| is a power of two.
Log2Abs(b) == IF b = I32_MIN THEN 31 ELSE ILog2(Abs(b))

IsPowerOfTwo(b) == b = I32_MIN \/ Abs(b) = TwoTo(ILog2(Abs(b)))

\* b^e for an i32 b with |b| >= 2 and 1 <= e <= 31, as [fits, v]: v is the power when
\* it lies in the i32 range.
RECURSIVE IPow(_, _)
IPow(b, e) ==
  IF e = 1 THEN [fits |-> TRUE, v |-> b]
  ELSE LET r == IPow(b, e - 1)
       IN  IF r.fits /\ MulFits(r.v, b)
           THEN [fits |-> TRUE, v |-> r.v * b]
           ELSE [fits |-> FALSE, v |-> 0]

\* b^e for an i32 b with |b| >= 2 and an i32 e >= 1.
PowWholePos(b, e) ==
  LET neg == b < 0 /\ e % 2 = 1
      L == Log2Abs(b)
      r == IF e <= 31 THEN IPow(b, e) ELSE [fits |-> FALSE, v |-> 0]
      two31 == b = 2 /\ e = 31
  IN  CASE r.fits -> Fin(r.v, 1)
        [] ~r.fits /\ two31 -> Special("two31")
        [] ~r.fits /\ ~two31 /\ (\/ e <= 1023 \div (L + 1)
                                 \/ (IsPowerOfTwo(b) /\ e <= 1023 \div L)) ->
             IF neg THEN Special("bign") ELSE Special("bigp")
        [] ~r.fits /\ e >= (1024 + L - 1) \div L ->
             IF neg THEN Special("ninf") ELSE Special("pinf")

\* b^e for an i32 b with |b| >= 2 and an i32 e <= -1: the reciprocal of b^(-e), which
\* underflows to a zero when b^(-e) is 2^1076 or more.  powf returns the reciprocal
\* itself where f64 holds it (b a power of two); elsewhere it returns an f64 within
\* one unit in the last place of it, which need not be the nearest one (1923^-1 is
\* not the quotient 1 / 1923), so only its class is known.
PowWholeNeg(b, e) ==
  LET neg == b < 0 /\ e % 2 = 1
      L == Log2Abs(b)
      r == IF e >= -31 THEN IPow(b, -e) ELSE [fits |-> FALSE, v |-> 0]
  IN  CASE r.fits /\ IsPowerOfTwo(b) -> FromRatio(1, r.v)
        [] r.fits /\ ~IsPowerOfTwo(b) ->
             IF neg THEN Special("fracn") ELSE Special("fracp")
        [] ~r.fits /\ (\/ e >= -(1074 \div (L + 1))
                       \/ (IsPowerOfTwo(b) /\ e >= -(1074 \div L))) ->
             IF neg THEN Special("fracn") ELSE Special("fracp")
        [] ~r.fits /\ e <= -((1076 + L - 1) \div L) ->
             IF neg THEN Special("nzero") ELSE Fin(0, 1)

\* The square root of a perfect square up to 10000, else -1.
ISqrt(n) == IF \E r \in 0..100 : r * r = n THEN CHOOSE r \in 0..100 : r * r = n ELSE -1

\* x^y for x = n/d with d a power of two above 1, and a whole y = e, where the result
\* is again such a value or a whole number: f64 holds it exactly.
PowRational(x, e) ==
  LET a == IF e < 0 THEN -e ELSE e
      pn == IPow(x.n, a)
      pd == IPow(x.d, a)
  IN  CASE e > 0 /\ Dyadic(x) /\ pn.fits /\ pd.fits -> Fin(pn.v, pd.v)
        [] e < 0 /\ Dyadic(x) /\ x.n \in {1, -1} /\ pd.fits -> FromRatio(pd.v, pn.v)

\* a.powf(b) in f64.
FPow(x, y) ==
  CASE IsZero(y) -> Fin(1, 1)
    [] ~IsZero(y) /\ x = Fin(1, 1) -> Fin(1, 1)
    [] ~IsZero(y) /\ x # Fin(1, 1) /\ (x.k = "nan" \/ y.k = "nan") -> Special("nan")
    [] x.k = "fin" /\ x # Fin(1, 1) /\ y.k = "fin" /\ y.n # 0 /\ y.d = 1 ->
         (CASE x.n = 0 -> IF y.n > 0 THEN Fin(0, 1) ELSE Special("pinf")
            [] x = Fin(-1, 1) -> IF y.n % 2 = 1 THEN Fin(-1, 1) ELSE Fin(1, 1)
            [] x.d = 1 /\ x.n \notin {-1, 0, 1} ->
                 IF y.n > 0 THEN PowWholePos(x.n, y.n) ELSE PowWholeNeg(x.n, y.n)
            [] x.d # 1 /\ y.n >= -31 /\ y.n <= 31 -> PowRational(x, y.n))
    [] x.k = "nzero" /\ y.k = "fin" /\ y.n # 0 /\ y.d = 1 ->
         IF y.n > 0
         THEN (IF y.n % 2 = 1 THEN Special("nzero") ELSE Fin(0, 1))
         ELSE (IF y.n % 2 = 1 THEN Special("ninf") ELSE Special("pinf"))
    [] x.k \in {"pinf", "two31", "bigp"} /\ y.k = "fin" /\ y.n = 1 /\ y.d = 1 -> x
    [] x.k = "fin" /\ x # Fin(1, 1) /\ y.k = "fin" /\ y.d = 2 ->
         (CASE x.n < 0 -> Special("nan")
            [] x.n = 0 -> IF y.n > 0 THEN Fin(0, 1) ELSE Special("pinf")
            [] x.n > 0 /\ x.n <= 100 /\ x.d <= 100 /\ y.n >= -3 /\ y.n <= 3
               /\ (ISqrt(x.n) = -1 \/ ISqrt(x.d) = -1) ->
                 Special("fracp")
            [] x.n > 0 /\ Small(x) /\ Dyadic(x) /\ ISqrt(x.n) # -1 /\ ISqrt(x.d) # -1
               /\ y.n >= -31 /\ y.n <= 31 ->
                 (LET root == FromRatio(ISqrt(x.n), ISqrt(x.d))
                  IN  IF root.d = 1
                      THEN (IF y.n > 0 THEN PowWholePos(root.n, y.n)
                                       ELSE PowWholeNeg(root.n, y.n))
                      ELSE PowRational(root, y.n)))

\* result.fract() == 0.0 (the fractional part of an infinity is NaN).
FIsWhole(x) ==
  CASE x.k = "fin" -> x.d = 1
    [] x.k \in {"nzero", "two31", "bigp", "bign"} -> TRUE
    [] x.k \in {"fracp", "fracn", "pinf", "ninf", "nan"} -> FALSE

\* Mutant: a cast that gives the "integer indefinite" value for what does not fit.
FToI32_indefinite(x) ==
  CASE x.k = "fin" /\ x.d = 1 -> x.n
    [] x.k = "nzero" -> 0
    [] x.k \in {"two31", "bigp", "pinf", "bign", "ninf", "nan"} -> I32_MIN

\* `result as i32` for a whole or non-finite f64: the cast saturates, and NaN gives 0.
FToI32(x) ==
  CASE x.k = "fin" /\ x.d = 1 -> x.n
    [] x.k = "nzero" -> 0
    [] x.k \in {"two31", "bigp", "pinf"} -> I32_MAX
    [] x.k \in {"bign", "ninf"} -> I32_MIN
    [] x.k = "nan" -> 0

\* The order of two f64's: "lt", "eq", "gt", or "un" when one is NaN.
FCompare(x, y) ==
  CASE x.k = "nan" \/ y.k = "nan" -> "un"
    [] x.k # "nan" /\ y.k # "nan" /\ IsZero(x) /\ IsZero(y) -> "eq"
    [] x.k # "nan" /\ y.k # "nan" /\ ~(IsZero(x) /\ IsZero(y)) /\ SignOf(x) # SignOf(y) ->
         IF SignOf(x) < SignOf(y) THEN "lt" ELSE "gt"
    [] x.k = "fin" /\ y.k = "fin" /\ SignOf(x) = SignOf(y) /\ x.n # 0 /\ x.d = 1 /\ y.d = 1 ->
         IF x.n < y.n THEN "lt" ELSE IF x.n = y.n THEN "eq" ELSE "gt"
    [] x.k = "fin" /\ y.k = "fin" /\ SignOf(x) = SignOf(y) /\ x.n # 0
       /\ (x.d # 1 \/ y.d # 1) /\ Small(x) /\ Small(y) ->
         IF x.n * y.d < y.n * x.d THEN "lt"
         ELSE IF x.n * y.d = y.n * x.d THEN "eq" ELSE "gt"
    [] x.k = "pinf" /\ y.k = "pinf" -> "eq"
    [] x.k = "ninf" /\ y.k = "ninf" -> "eq"
    [] x.k = "two31" /\ y.k = "two31" -> "eq"
    [] x.k = "pinf" /\ y.k \in {"fin", "two31", "bigp", "fracp"} /\ SignOf(y) = 1 -> "gt"
    [] y.k = "pinf" /\ x.k \in {"fin", "two31", "bigp", "fracp"} /\ SignOf(x) = 1 -> "lt"
    [] x.k = "ninf" /\ y.k \in {"fin", "bign", "fracn"} /\ SignOf(y) = -1 -> "lt"
    [] y.k = "ninf" /\ x.k \in {"fin", "bign", "fracn"} /\ SignOf(x) = -1 -> "gt"
    [] x.k = "bigp" /\ y.k \in {"fin", "two31", "fracp"} /\ SignOf(y) = 1 -> "gt"
    [] y.k = "bigp" /\ x.k \in {"fin", "two31", "fracp"} /\ SignOf(x) = 1 -> "lt"
    [] x.k = "two31" /\ y.k \in {"fin", "fracp"} /\ SignOf(y) = 1 -> "gt"
    [] y.k = "two31" /\ x.k \in {"fin", "fracp"} /\ SignOf(x) = 1 -> "lt"
    [] x.k = "bign" /\ y.k \in {"fin", "fracn"} /\ SignOf(y) = -1 -> "lt"
    [] y.k = "bign" /\ x.k \in {"fin", "fracn"} /\ SignOf(x) = -1 -> "gt"

(***************************************************************************)
(* RuntimeValue: a tagged union, here one record shape for every variant   *)
(* (t the tag; k, n, d the f64 of a Float; n the i32 of an Integer, the    *)
(* index of a String, 1/0 for a Boolean).                                  *)
(***************************************************************************)
IntegerLiteral(n) == [t |-> "Integer", k |-> "fin", n |-> n, d |-> 1]

FloatLiteral(f) == [t |-> "Float", k |-> f.k, n |-> f.n, d |-> f.d]

BooleanLiteral(b) == [t |-> "Boolean", k |-> "fin", n |-> IF b THEN 1 ELSE 0, d |-> 1]

StringLiteral(i) == [t |-> "String", k |-> "fin", n |-> i, d |-> 1]

NilLiteral == [t |-> "Nil", k |-> "fin", n |-> 0, d |-> 1]

BOOLEAN_TRUE == BooleanLiteral(TRUE)

BOOLEAN_FALSE == BooleanLiteral(FALSE)

NIL_LITERAL == NilLiteral

is_number(v) == v.t \in {"Integer", "Float"}

is_float(v) == v.t = "Float"

get_type(v) == v.t

\* `n as f64` for an Integer, the payload of a Float.
as_f64(v) == [k |-> v.k, n |-> v.n, d |-> v.d]

\* Boolean false and Nil are falsy, every other value is truthy.
is_truthy(v) == ~(v = BOOLEAN_FALSE \/ v = NIL_LITERAL)

(***************************************************************************)
(* Spans and errors.                                                       *)
(***************************************************************************)
Span(line, start_column, end_column) ==
  [line |-> line, start_column |-> start_column, end_column |-> end_column]

SpanDefault == Span(0, 0, 0)

\* debug_info.get_span(ip): the artifacts of this model carry one debug map, which gives
\* the instruction at byte offset i a span of its own.
get_span(i) == Span(1 + (i \div 8), 2 * (i % 8), 2 * (i % 8) + 1)

HydorError(kind) ==
  [kind |-> kind, stack_length |-> -1, operation |-> "", left_type |-> "",
   right_type |-> "", operand_type |-> "", blame_type |-> "", span |-> SpanDefault]

NoError == HydorError("None")

StackOverflow(stack_length, span) ==
  [HydorError("StackOverflow") EXCEPT !.stack_length = stack_length, !.span = span]

StackUnderflow(stack_length, span) ==
  [HydorError("StackUnderflow") EXCEPT !.stack_length = stack_length, !.span = span]

ArithmeticError(operation, left_type, right_type, span) ==
  [HydorError("ArithmeticError") EXCEPT !.operation = operation, !.left_type = left_type,
                                        !.right_type = right_type, !.span = span]

UnaryOperationError(operation, operand_type, span) ==
  [HydorError("UnaryOperationError") EXCEPT !.operation = operation,
                                            !.operand_type = operand_type, !.span = span]

ComparisonOperationError(operation, blame_type, span) ==
  [HydorError("ComparisonOperationError") EXCEPT !.operation = operation,
                                                 !.blame_type = blame_type, !.span = span]

\* A panic (unreachable!(), an index out of bounds, an arithmetic overflow check).
Panic(message) == [HydorError("Panic") EXCEPT !.operation = message]

(***************************************************************************)
(* Outcomes of a handler: the stack and string table it leaves, and        *)
(* Ok(()) ("ok"), Err(e) ("err") or a panic.                               *)
(***************************************************************************)
Ok(stk, tbl) == [res |-> "ok", stack |-> stk, string_table |-> tbl, err |-> NoError]

Err(stk, tbl, e) == [res |-> "err", stack |-> stk, string_table |-> tbl, err |-> e]

Panicked(stk, tbl, message) ==
  [res |-> "panic", stack |-> stk, string_table |-> tbl, err |-> Panic(message)]

StackValue(value, span) == [value |-> value, span |-> span]

\* The stack without its top slot (Vec::pop).
Popped(stk) == SubSeq(stk, 1, Len(stk) - 1)

Top(stk) == stk[Len(stk)]

(***************************************************************************)
(* Stack discipline.                                                       *)
(***************************************************************************)
\* Mutant: the bound test off by one (`>` for `>=`).
push_off_by_one(stk, tbl, value, span) ==
  IF Len(stk) > MAX_STACK
  THEN Err(stk, tbl, StackOverflow(Len(stk), span))
  ELSE Ok(Append(stk, StackValue(value, span)), tbl)

push(stk, tbl, value, span) ==
  IF Len(stk) >= MAX_STACK
  THEN Err(stk, tbl, StackOverflow(Len(stk), span))
  ELSE Ok(Append(stk, StackValue(value, span)), tbl)

\* peek_offset(n) / peek_span(n): the error, or NoError when depth n is valid.
peek_check(stk, n) ==
  IF n >= Len(stk) THEN StackUnderflow(Len(stk), SpanDefault) ELSE NoError

peek_offset(stk, n) == stk[Len(stk) - n].value

peek_span(stk, n) == stk[Len(stk) - n].span

set_offset_value(stk, tbl, n, new_value) ==
  IF n >= Len(stk)
  THEN Err(stk, tbl, StackUnderflow(Len(stk), SpanDefault))
  ELSE Ok([stk EXCEPT ![Len(stk) - n].value = new_value], tbl)

\* Mutant: the wrong error variant for an empty stack.
pop_check_wrong_kind(stk) ==
  IF Len(stk) = 0 THEN StackOverflow(0, SpanDefault) ELSE NoError

\* pop_value() / pop_with_span(): the error of popping, or NoError.
pop_check(stk) ==
  IF Len(stk) = 0 THEN StackUnderflow(0, SpanDefault) ELSE NoError

(***************************************************************************)
(* The string table.  A text is a sequence of characters.                  *)
(***************************************************************************)
\* self.string_table[index], for an index in range.
resolve_string(tbl, index) == tbl[index + 1]

InTable(tbl, index) == index >= 0 /\ index < Len(tbl)

\* Mutant: the search skips the first entry of the table.
position_skips_first(tbl, s) ==
  IF \E i \in 2..Len(tbl) : tbl[i] = s
  THEN (CHOOSE i \in 2..Len(tbl) : tbl[i] = s /\ \A j \in 2..(i - 1) : tbl[j] # s) - 1
  ELSE -1

\* iter().position(..): the first 0-based index holding s, or -1.
position(tbl, s) ==
  IF \E i \in 1..Len(tbl) : tbl[i] = s
  THEN (CHOOSE i \in 1..Len(tbl) : tbl[i] = s /\ \A j \in 1..(i - 1) : tbl[j] # s) - 1
  ELSE -1

\* Mutant: no deduplication, the text is always appended.
intern_string_always_appends(tbl, s) ==
  [index |-> Len(tbl), string_table |-> Append(tbl, s)]

\* Mutant: a pushed text is given the table's new length, not its last index.
intern_string_no_minus_one(tbl, s) ==
  IF position(tbl, s) # -1
  THEN [index |-> position(tbl, s), string_table |-> tbl]
  ELSE [index |-> Len(tbl) + 1, string_table |-> Append(tbl, s)]

\* Mutant: a new text goes to the front of the table.
intern_string_prepends(tbl, s) ==
  IF position(tbl, s) # -1
  THEN [index |-> position(tbl, s), string_table |-> tbl]
  ELSE [index |-> 0, string_table |-> <<s>> \o tbl]

\* intern_string(s): the index returned and the table left.
intern_string(tbl, s) ==
  IF position(tbl, s) # -1
  THEN [index |-> position(tbl, s), string_table |-> tbl]
  ELSE [index |-> Len(tbl), string_table |-> Append(tbl, s)]

(***************************************************************************)
(* Binary arithmetic.                                                      *)
(***************************************************************************)
\* The closures handed to compute_numeric.
ApplyClosure(op_name, a, b) ==
  CASE op_name = "addition" -> FAdd(a, b)
    [] op_name = "subtraction" -> FSub(a, b)
    [] op_name = "multiplication" -> FMul(a, b)
    [] op_name = "division" -> FDiv(a, b)
    [] op_name = "exponentiation" -> FPow(a, b)

\* Mutant: the result is narrowed whenever it is whole, Float operands included.
compute_numeric_no_float_check(left, right, op_name) ==
  LET result == ApplyClosure(op_name, as_f64(left), as_f64(right))
  IN  IF FIsWhole(result)
      THEN IntegerLiteral(FToI32(result))
      ELSE FloatLiteral(result)

compute_numeric(left, right, op_name) ==
  LET a == as_f64(left)
      b == as_f64(right)
      result == ApplyClosure(op_name, a, b)
  IN  IF ~is_float(left) /\ ~is_float(right) /\ FIsWhole(result)
      THEN IntegerLiteral(FToI32(result))
      ELSE FloatLiteral(result)

\* The span of a binary result: the left span's start, the right span's end.
MergeSpan(left_span, right_span) ==
  Span(left_span.line, left_span.start_column, right_span.end_column)

string_concat(stk, tbl, left, left_span, right, right_span) ==
  LET left_idx == left.n
      right_idx == right.n
  IN  IF ~InTable(tbl, left_idx) \/ ~InTable(tbl, right_idx)
      THEN Panicked(stk, tbl, "index out of bounds")
      ELSE LET concatenated == resolve_string(tbl, left_idx) \o resolve_string(tbl, right_idx)
               interned == intern_string(tbl, concatenated)
           IN  push(stk, interned.string_table, StringLiteral(interned.index),
                    MergeSpan(left_span, right_span))

\* Mutant: the error always carries the left operand's span.
numeric_tail_left_span(stk, tbl, op_name, left, left_span, right, right_span) ==
  IF ~is_number(left) \/ ~is_number(right)
  THEN Err(stk, tbl, ArithmeticError(op_name, get_type(left), get_type(right), left_span))
  ELSE push(stk, tbl, compute_numeric(left, right, op_name),
            MergeSpan(left_span, right_span))

\* The part of binary_op_add and binary_op_numeric after the two pops.
numeric_tail(stk, tbl, op_name, left, left_span, right, right_span) ==
  IF ~is_number(left)
  THEN Err(stk, tbl, ArithmeticError(op_name, get_type(left), get_type(right), left_span))
  ELSE IF ~is_number(right)
  THEN Err(stk, tbl, ArithmeticError(op_name, get_type(left), get_type(right), right_span))
  ELSE push(stk, tbl, compute_numeric(left, right, op_name),
            MergeSpan(left_span, right_span))

\* Mutant: only the right operand is popped, the result lands above the left one.
binary_op_numeric_keeps_left(stk, tbl, op_name) ==
  IF pop_check(stk) # NoError THEN Err(stk, tbl, pop_check(stk))
  ELSE IF pop_check(Popped(stk)) # NoError
  THEN Err(Popped(stk), tbl, pop_check(Popped(stk)))
  ELSE LET right == Top(stk)
           left == Top(Popped(stk))
       IN  numeric_tail(Popped(stk), tbl, op_name,
                        left.value, left.span, right.value, right.span)

binary_op_numeric(stk, tbl, op_name) ==
  IF pop_check(stk) # NoError THEN Err(stk, tbl, pop_check(stk))
  ELSE IF pop_check(Popped(stk)) # NoError
  THEN Err(Popped(stk), tbl, pop_check(Popped(stk)))
  ELSE LET right == Top(stk)
           left == Top(Popped(stk))
       IN  numeric_tail(Popped(Popped(stk)), tbl, op_name,
                        left.value, left.span, right.value, right.span)

binary_op_add(stk, tbl) ==
  IF pop_check(stk) # NoError THEN Err(stk, tbl, pop_check(stk))
  ELSE IF pop_check(Popped(stk)) # NoError
  THEN Err(Popped(stk), tbl, pop_check(Popped(stk)))
  ELSE LET right == Top(stk)
           left == Top(Popped(stk))
           rest == Popped(Popped(stk))
       IN  IF left.value.t = "String" /\ right.value.t = "String"
           THEN string_concat(rest, tbl, left.value, left.span, right.value, right.span)
           ELSE numeric_tail(rest, tbl, "addition",
                             left.value, left.span, right.value, right.span)

(***************************************************************************)
(* Unary operators.                                                        *)
(***************************************************************************)
\* checks: whether the build checks integer overflow (`-lit` of i32::MIN panics with
\* the checks and wraps to i32::MIN without them).
unary_negation_operation(stk, tbl, span, checks) ==
  IF peek_check(stk, 0) # NoError THEN Err(stk, tbl, peek_check(stk, 0))
  ELSE LET target == peek_offset(stk, 0)
           target_span == peek_span(stk, 0)
       IN  IF ~is_number(target)
           THEN Err(stk, tbl,
                    UnaryOperationError("negation", get_type(target),
                        Span(span.line, span.start_column, target_span.end_column)))
           ELSE IF is_float(target)
           THEN set_offset_value(stk, tbl, 0, FloatLiteral(FNeg(as_f64(target))))
           ELSE IF target.n = I32_MIN
           THEN (IF checks
                 THEN Panicked(stk, tbl, "attempt to negate with overflow")
                 ELSE set_offset_value(stk, tbl, 0, IntegerLiteral(I32_MIN)))
           ELSE set_offset_value(stk, tbl, 0, IntegerLiteral(-target.n))

\* Mutant: numeric zero counts as falsy.
unary_not_zero_falsy(stk, tbl) ==
  IF peek_check(stk, 0) # NoError THEN Err(stk, tbl, peek_check(stk, 0))
  ELSE IF is_truthy(peek_offset(stk, 0))
          /\ ~(is_number(peek_offset(stk, 0)) /\ IsZero(as_f64(peek_offset(stk, 0))))
  THEN set_offset_value(stk, tbl, 0, BOOLEAN_FALSE)
  ELSE set_offset_value(stk, tbl, 0, BOOLEAN_TRUE)

unary_not_operation(stk, tbl) ==
  IF peek_check(stk, 0) # NoError THEN Err(stk, tbl, peek_check(stk, 0))
  ELSE IF is_truthy(peek_offset(stk, 0))
  THEN set_offset_value(stk, tbl, 0, BOOLEAN_FALSE)
  ELSE set_offset_value(stk, tbl, 0, BOOLEAN_TRUE)

(***************************************************************************)
(* Comparisons.                                                            *)
(***************************************************************************)
opcode_to_operator(opcode) ==
  CASE opcode = "CompareLess" -> "<"
    [] opcode = "CompareLessEqual" -> "<="
    [] opcode = "CompareGreater" -> ">"
    [] opcode = "CompareGreaterEqual" -> ">="
    [] opcode = "CompareEqual" -> "=="
    [] opcode = "CompareNotEqual" -> "!="
    [] OTHER -> "?"

\* Mutant: the operands are compared in the opposite order.
compare_numbers_swapped(stk, tbl, opcode, left, right, span) ==
  LET c == FCompare(as_f64(right), as_f64(left))
      result == CASE opcode = "CompareLess" -> c = "lt"
                  [] opcode = "CompareLessEqual" -> c \in {"lt", "eq"}
                  [] opcode = "CompareGreater" -> c = "gt"
                  [] opcode = "CompareGreaterEqual" -> c \in {"gt", "eq"}
                  [] opcode = "CompareEqual" -> c = "eq"
                  [] opcode = "CompareNotEqual" -> c # "eq"
  IN  push(stk, tbl, IF result THEN BOOLEAN_TRUE ELSE BOOLEAN_FALSE, span)

compare_numbers(stk, tbl, opcode, left, right, span) ==
  LET c == FCompare(as_f64(left), as_f64(right))
      result == CASE opcode = "CompareLess" -> c = "lt"
                  [] opcode = "CompareLessEqual" -> c \in {"lt", "eq"}
                  [] opcode = "CompareGreater" -> c = "gt"
                  [] opcode = "CompareGreaterEqual" -> c \in {"gt", "eq"}
                  [] opcode = "CompareEqual" -> c = "eq"
                  [] opcode = "CompareNotEqual" -> c # "eq"
  IN  push(stk, tbl, IF result THEN BOOLEAN_TRUE ELSE BOOLEAN_FALSE, span)

\* Mutant: two Strings are equal when the left index does not exceed the right one.
values_equal_index_order(left, right) ==
  CASE left.t = "String" /\ right.t = "String" -> left.n <= right.n
    [] left.t = right.t -> left = right
    [] OTHER -> FALSE

values_equal(left, right) ==
  CASE left.t = "Integer" /\ right.t = "Integer" -> left.n = right.n
    [] left.t = "Float" /\ right.t = "Float" -> FCompare(as_f64(left), as_f64(right)) = "eq"
    [] left.t = "Boolean" /\ right.t = "Boolean" -> left.n = right.n
    [] left.t = "String" /\ right.t = "String" -> left.n = right.n
    [] left.t = "Nil" /\ right.t = "Nil" -> TRUE
    [] left.t = "Integer" /\ right.t = "Float" -> FCompare(as_f64(left), as_f64(right)) = "eq"
    [] left.t = "Float" /\ right.t = "Integer" -> FCompare(as_f64(left), as_f64(right)) = "eq"
    [] OTHER -> FALSE

\* Mutant: the blame goes to the right operand whenever it is non-numeric.
compare_operation_blame_right(stk, tbl, opcode, span) ==
  IF pop_check(stk) # NoError THEN Err(stk, tbl, pop_check(stk))
  ELSE IF pop_check(Popped(stk)) # NoError
  THEN Err(Popped(stk), tbl, pop_check(Popped(stk)))
  ELSE LET right_val == Top(stk).value
           left_val == Top(Popped(stk)).value
           rest == Popped(Popped(stk))
       IN  IF is_number(left_val) /\ is_number(right_val)
           THEN compare_numbers(rest, tbl, opcode, left_val, right_val, span)
           ELSE IF opcode = "CompareEqual"
           THEN push(rest, tbl, IF values_equal(left_val, right_val)
                                THEN BOOLEAN_TRUE ELSE BOOLEAN_FALSE, span)
           ELSE IF opcode = "CompareNotEqual"
           THEN push(rest, tbl, IF values_equal(left_val, right_val)
                                THEN BOOLEAN_FALSE ELSE BOOLEAN_TRUE, span)
           ELSE Err(rest, tbl,
                    ComparisonOperationError(opcode_to_operator(opcode),
                        IF ~is_number(right_val) THEN get_type(right_val)
                        ELSE get_type(left_val), span))

compare_operation(stk, tbl, opcode, span) ==
  IF pop_check(stk) # NoError THEN Err(stk, tbl, pop_check(stk))
  ELSE IF pop_check(Popped(stk)) # NoError
  THEN Err(Popped(stk), tbl, pop_check(Popped(stk)))
  ELSE LET right_val == Top(stk).value
           left_val == Top(Popped(stk)).value
           rest == Popped(Popped(stk))
       IN  IF is_number(left_val) /\ is_number(right_val)
           THEN compare_numbers(rest, tbl, opcode, left_val, right_val, span)
           ELSE IF opcode = "CompareEqual"
           THEN push(rest, tbl, IF values_equal(left_val, right_val)
                                THEN BOOLEAN_TRUE ELSE BOOLEAN_FALSE, span)
           ELSE IF opcode = "CompareNotEqual"
           THEN push(rest, tbl, IF values_equal(left_val, right_val)
                                THEN BOOLEAN_FALSE ELSE BOOLEAN_TRUE, span)
           ELSE Err(rest, tbl,
                    ComparisonOperationError(opcode_to_operator(opcode),
                        IF ~is_number(left_val) THEN get_type(left_val)
                        ELSE get_type(right_val), span))

(***************************************************************************)
(* Instruction encoding.                                                   *)
(***************************************************************************)
OpCodes ==
  <<"Halt", "Pop", "LoadConstant", "LoadString", "LoadNil", "LoadBoolTrue",
    "LoadBoolFalse", "Add", "Subtract", "Multiply", "Divide", "Exponent",
    "UnaryNegate", "UnaryNot", "CompareLess", "CompareLessEqual", "CompareGreater",
    "CompareGreaterEqual", "CompareEqual", "CompareNotEqual">>

\* u8::to_opcode of bytecode.rs: the tags 0x01..0x03, "invalid" where it panics
\* (unreachable!).
to_opcode(byte) ==
  CASE byte = 1 -> "Halt"
    [] byte = 2 -> "Pop"
    [] byte = 3 -> "LoadConstant"
    [] OTHER -> "invalid"

\* The ToOpcode the machine decodes with: vm.rs dispatches on the whole catalogue,
\* which takes the tags after those of bytecode.rs; "invalid" where it panics.
ToOpcode(byte) ==
  IF to_opcode(byte) # "invalid" THEN to_opcode(byte)
  ELSE IF byte \in 4..Len(OpCodes) THEN OpCodes[byte]
  ELSE "invalid"

\* opcode.into(): the tag byte of an opcode.
OpcodeByte(opcode) == CHOOSE b \in 1..Len(OpCodes) : OpCodes[b] = opcode

\* get_definition(opcode).operands_width
operands_width(opcode) ==
  IF opcode \in {"LoadConstant", "LoadString"} THEN <<2>> ELSE <<>>

\* The two bytes of the operand, low byte first.
WriteI16_little_endian(operand) == <<operand % 256, (operand % 65536) \div 256>>

\* BigEndian::write_i16 of `operand as i16`: the low 16 bits, high byte first.
WriteI16(operand) == <<(operand % 65536) \div 256, operand % 256>>

\* OpCode::make(opcode, operands): how the call ends and the buffer it has built.
\* An operand beyond the declared widths panics in `definition.operands_width[i]`
\* and the buffer is lost; a field without an operand stays zero.
make(opcode, operands) ==
  IF Len(operands) > Len(operands_width(opcode))
  THEN [res |-> "panic", instructions |-> <<>>]
  ELSE [res |-> "ok",
        instructions |->
          <<OpcodeByte(opcode)>>
            \o (IF operands_width(opcode) = <<2>>
                THEN (IF operands = <<>> THEN <<0, 0>> ELSE WriteI16(operands[1]))
                ELSE <<>>)]

\* The bytes of one instruction of an artifact.
Instruction(opcode, operands) == make(opcode, operands).instructions

\* read_uint16(instructions, offset): the big-endian u16 at a 0-based offset.
read_uint16(ins, offset) == ins[offset + 1] * 256 + ins[offset + 2]

\* No call of make is under way: the machine runs an artifact that is already built.
EncoderAtRest ==
  /\ make_opcode = "none"
  /\ make_operands = <<>>
  /\ make_instructions = <<>>
  /\ make_status = "none"

\* The operands make is called with: every value of 16 bits, and i32 values beyond
\* them, which `*operand as i16` cuts to their low 16 bits.
MakeOperands == (0 .. 65535) \cup {-1, -32768, 65536, 65794, I32_MAX, I32_MIN}

\* The operand lists make is called with for an opcode: one operand per declared
\* width, fewer (the fields left out stay zero), and one operand too many.
MakeOperandLists(opcode) ==
  IF operands_width(opcode) = <<2>>
  THEN {<<>>, <<1, 2>>} \cup {<<operand>> : operand \in MakeOperands}
  ELSE {<<>>, <<0>>, <<5>>}

\* OpCode::make(opcode, operands), applied to the arguments held in the state.
MakeStep ==
  /\ make_opcode # "none"
  /\ make_status = "none"
  /\ make_instructions' = make(make_opcode, make_operands).instructions
  /\ make_status' = make(make_opcode, make_operands).res
  /\ UNCHANGED <<make_opcode, make_operands, checker, instructions, constants, overflow_checks,
                 string_table, stack, last_pop, ip, status, error>>

(***************************************************************************)
(* The type checker.  A check returns the type of the expression, or None, *)
(* and the diagnostics the checker holds afterwards.                       *)
(***************************************************************************)
\* enum Type; the checker's name of the Boolean type is Bool.
Types == {"Integer", "Float", "Bool", "String"}

\* Option::None of Option<Type>.
None == "None"

\* The token types of the binary operators.
BinaryOperators ==
  {"Plus", "Minus", "Asterisk", "Slash", "Caret", "LessThan", "LessThanEqual",
   "GreaterThan", "GreaterThanEqual", "Equal", "NotEqual"}

\* TokenType::to_string: the text of an operator token.
token_to_string(token_type) ==
  CASE token_type = "Plus" -> "+"
    [] token_type = "Minus" -> "-"
    [] token_type = "Asterisk" -> "*"
    [] token_type = "Slash" -> "/"
    [] token_type = "Caret" -> "^"
    [] token_type = "LessThan" -> "<"
    [] token_type = "LessThanEqual" -> "<="
    [] token_type = "GreaterThan" -> ">"
    [] token_type = "GreaterThanEqual" -> ">="
    [] token_type = "Equal" -> "=="
    [] token_type = "NotEqual" -> "!="

\* HydorError::InvalidBinaryOp { operator, left_type, right_type, span }
InvalidBinaryOp(operator, left_type, right_type, span) ==
  [kind |-> "InvalidBinaryOp", operator |-> operator, left_type |-> left_type,
   right_type |-> right_type, span |-> span]

\* Expr::IntegerLiteral, FloatLiteral, BooleanLiteral and StringLiteral with the span
\* of Spanned<Expr>; the type of a literal does not depend on its payload.
LiteralKinds == {"IntegerLiteral", "FloatLiteral", "BooleanLiteral", "StringLiteral"}

Literal(kind, span) ==
  [node |-> kind, operator |-> "none", operands |-> <<>>, span |-> span]

\* Expr::BinaryOperation { left, operator, right } with its span.
BinaryOperation(left, operator, right, span) ==
  [node |-> "BinaryOperation", operator |-> operator, operands |-> <<left, right>>,
   span |-> span]

\* What a check returns: Option<Type> and the checker's errors afterwards.
Checked(type, errors) == [type |-> type, errors |-> errors]

\* self.throw_error(error): the diagnostic joins the checker's errors.
throw_error(errors, diagnostic) == Append(errors, diagnostic)

RECURSIVE check_expression(_, _)

\* check_binary_expr without the last throw_error of the Plus arm: two operands of
\* one type always add.
check_binary_expr_plus_any_type(errors, operator, left, right, span) ==
  LET checked_left == check_expression(errors, left)
  IN  IF checked_left.type = None THEN checked_left
      ELSE
      LET checked_right == check_expression(checked_left.errors, right)
      IN  IF checked_right.type = None THEN checked_right
          ELSE
          LET left_type == checked_left.type
              right_type == checked_right.type
              invalid ==
                Checked(None,
                        throw_error(checked_right.errors,
                                    InvalidBinaryOp(token_to_string(operator),
                                                    left_type, right_type, span)))
              Some(type) == Checked(type, checked_right.errors)
          IN  CASE operator = "Plus" ->
                     IF left_type # right_type THEN invalid
                     ELSE IF left_type = "Integer" \/ left_type = "Float"
                     THEN Some(left_type)
                     ELSE Some(left_type)
                [] operator \in {"Minus", "Asterisk", "Slash", "Caret"} ->
                     IF left_type # right_type THEN invalid
                     ELSE IF left_type # "Integer" /\ left_type # "Float" THEN invalid
                     ELSE Some(left_type)
                [] operator \in {"LessThan", "LessThanEqual", "GreaterThan",
                                 "GreaterThanEqual"} ->
                     IF left_type # right_type THEN invalid
                     ELSE IF left_type # "Integer" /\ left_type # "Float" THEN invalid
                     ELSE Some("Bool")
                [] operator \in {"Equal", "NotEqual"} ->
                     IF left_type # right_type THEN invalid
                     ELSE Some("Bool")

\* check_binary_expr without the numeric test of the arithmetic and ordering arms.
check_binary_expr_no_numeric_test(errors, operator, left, right, span) ==
  LET checked_left == check_expression(errors, left)
  IN  IF checked_left.type = None THEN checked_left
      ELSE
      LET checked_right == check_expression(checked_left.errors, right)
      IN  IF checked_right.type = None THEN checked_right
          ELSE
          LET left_type == checked_left.type
              right_type == checked_right.type
              invalid ==
                Checked(None,
                        throw_error(checked_right.errors,
                                    InvalidBinaryOp(token_to_string(operator),
                                                    left_type, right_type, span)))
              Some(type) == Checked(type, checked_right.errors)
          IN  CASE operator = "Plus" ->
                     IF left_type # right_type THEN invalid
                     ELSE IF left_type = "Integer" \/ left_type = "Float"
                     THEN Some(left_type)
                     ELSE IF left_type = "String" THEN Some(left_type)
                     ELSE invalid
                [] operator \in {"Minus", "Asterisk", "Slash", "Caret"} ->
                     IF left_type # right_type THEN invalid
                     ELSE Some(left_type)
                [] operator \in {"LessThan", "LessThanEqual", "GreaterThan",
                                 "GreaterThanEqual"} ->
                     IF left_type # right_type THEN invalid
                     ELSE Some("Bool")
                [] operator \in {"Equal", "NotEqual"} ->
                     IF left_type # right_type THEN invalid
                     ELSE Some("Bool")

\* check_binary_expr with a diagnostic of its own when the left operand has no type.
check_binary_expr_reports_failed_operand(errors, operator, left, right, span) ==
  LET checked_left == check_expression(errors, left)
  IN  IF checked_left.type = None
      THEN Checked(None,
                   throw_error(checked_left.errors,
                               InvalidBinaryOp(token_to_string(operator), None, None,
                                               span)))
      ELSE
      LET checked_right == check_expression(checked_left.errors, right)
      IN  IF checked_right.type = None THEN checked_right
          ELSE
          LET left_type == checked_left.type
              right_type == checked_right.type
              invalid ==
                Checked(None,
                        throw_error(checked_right.errors,
                                    InvalidBinaryOp(token_to_string(operator),
                                                    left_type, right_type, span)))
              Some(type) == Checked(type, checked_right.errors)
          IN  CASE operator = "Plus" ->
                     IF left_type # right_type THEN invalid
                     ELSE IF left_type = "Integer" \/ left_type = "Float"
                     THEN Some(left_type)
                     ELSE IF left_type = "String" THEN Some(left_type)
                     ELSE invalid
                [] operator \in {"Minus", "Asterisk", "Slash", "Caret"} ->
                     IF left_type # right_type THEN invalid
                     ELSE IF left_type # "Integer" /\ left_type # "Float" THEN invalid
                     ELSE Some(left_type)
                [] operator \in {"LessThan", "LessThanEqual", "GreaterThan",
                                 "GreaterThanEqual"} ->
                     IF left_type # right_type THEN invalid
                     ELSE IF left_type # "Integer" /\ left_type # "Float" THEN invalid
                     ELSE Some("Bool")
                [] operator \in {"Equal", "NotEqual"} ->
                     IF left_type # right_type THEN invalid
                     ELSE Some("Bool")

\* check_binary_expr without the type comparison of the Equal / NotEqual arm.
check_binary_expr_equal_any_types(errors, operator, left, right, span) ==
  LET checked_left == check_expression(errors, left)
  IN  IF checked_left.type = None THEN checked_left
      ELSE
      LET checked_right == check_expression(checked_left.errors, right)
      IN  IF checked_right.type = None THEN checked_right
          ELSE
          LET left_type == checked_left.type
              right_type == checked_right.type
              invalid ==
                Checked(None,
                        throw_error(checked_right.errors,
                                    InvalidBinaryOp(token_to_string(operator),
                                                    left_type, right_type, span)))
              Some(type) == Checked(type, checked_right.errors)
          IN  CASE operator = "Plus" ->
                     IF left_type # right_type THEN invalid
                     ELSE IF left_type = "Integer" \/ left_type = "Float"
                     THEN Some(left_type)
                     ELSE IF left_type = "String" THEN Some(left_type)
                     ELSE invalid
                [] operator \in {"Minus", "Asterisk", "Slash", "Caret"} ->
                     IF left_type # right_type THEN invalid
                     ELSE IF left_type # "Integer" /\ left_type # "Float" THEN invalid
                     ELSE Some(left_type)
                [] operator \in {"LessThan", "LessThanEqual", "GreaterThan",
                                 "GreaterThanEqual"} ->
                     IF left_type # right_type THEN invalid
                     ELSE IF left_type # "Integer" /\ left_type # "Float" THEN invalid
                     ELSE Some("Bool")
                [] operator \in {"Equal", "NotEqual"} -> Some("Bool")

\* check_binary_expr without the type comparison of the Plus arm: the left type decides.
check_binary_expr_plus_left_decides(errors, operator, left, right, span) ==
  LET checked_left == check_expression(errors, left)
  IN  IF checked_left.type = None THEN checked_left
      ELSE
      LET checked_right == check_expression(checked_left.errors, right)
      IN  IF checked_right.type = None THEN checked_right
          ELSE
          LET left_type == checked_left.type
              right_type == checked_right.type
              invalid ==
                Checked(None,
                        throw_error(checked_right.errors,
                                    InvalidBinaryOp(token_to_string(operator),
                                                    left_type, right_type, span)))
              Some(type) == Checked(type, checked_right.errors)
          IN  CASE operator = "Plus" ->
                     IF left_type = "Integer" \/ left_type = "Float"
                     THEN Some(left_type)
                     ELSE IF left_type = "String" THEN Some(left_type)
                     ELSE invalid
                [] operator \in {"Minus", "Asterisk", "Slash", "Caret"} ->
                     IF left_type # right_type THEN invalid
                     ELSE IF left_type # "Integer" /\ left_type # "Float" THEN invalid
                     ELSE Some(left_type)
                [] operator \in {"LessThan", "LessThanEqual", "GreaterThan",
                                 "GreaterThanEqual"} ->
                     IF left_type # right_type THEN invalid
                     ELSE IF left_type # "Integer" /\ left_type # "Float" THEN invalid
                     ELSE Some("Bool")
                [] operator \in {"Equal", "NotEqual"} ->
                     IF left_type # right_type THEN invalid
                     ELSE Some("Bool")

\* TypeChecker::check_binary_expr(&mut self, operator, left, right, span); `errors`
\* are the diagnostics of self at the call.
check_binary_expr(errors, operator, left, right, span) ==
  LET checked_left == check_expression(errors, left)
  IN  IF checked_left.type = None THEN checked_left
      ELSE
      LET checked_right == check_expression(checked_left.errors, right)
      IN  IF checked_right.type = None THEN checked_right
          ELSE
          LET left_type == checked_left.type
              right_type == checked_right.type
              invalid ==
                Checked(None,
                        throw_error(checked_right.errors,
                                    InvalidBinaryOp(token_to_string(operator),
                                                    left_type, right_type, span)))
              Some(type) == Checked(type, checked_right.errors)
          IN  CASE operator = "Plus" ->
                     IF left_type # right_type THEN invalid
                     ELSE IF left_type = "Integer" \/ left_type = "Float"
                     THEN Some(left_type)
                     ELSE IF left_type = "String" THEN Some(left_type)
                     ELSE invalid
                [] operator \in {"Minus", "Asterisk", "Slash", "Caret"} ->
                     IF left_type # right_type THEN invalid
                     ELSE IF left_type # "Integer" /\ left_type # "Float" THEN invalid
                     ELSE Some(left_type)
                [] operator \in {"LessThan", "LessThanEqual", "GreaterThan",
                                 "GreaterThanEqual"} ->
                     IF left_type # right_type THEN invalid
                     ELSE IF left_type # "Integer" /\ left_type # "Float" THEN invalid
                     ELSE Some("Bool")
                [] operator \in {"Equal", "NotEqual"} ->
                     IF left_type # right_type THEN invalid
                     ELSE Some("Bool")

\* TypeChecker::check_expression: a literal has the type of its kind, a binary
\* operation the type check_binary_expr gives it.
check_expression(errors, expr) ==
  CASE expr.node = "IntegerLiteral" -> Checked("Integer", errors)
    [] expr.node = "FloatLiteral" -> Checked("Float", errors)
    [] expr.node = "BooleanLiteral" -> Checked("Bool", errors)
    [] expr.node = "StringLiteral" -> Checked("String", errors)
    [] expr.node = "BinaryOperation" ->
         check_binary_expr(errors, expr.operator, expr.operands[1], expr.operands[2],
                           expr.span)

\* No check is under way.
CheckerAtRest ==
  /\ expression = Literal("none", SpanDefault)
  /\ check_result = "unchecked"
  /\ checker_errors = <<>>

\* check(expression): the checker of the driver checks the expression it holds.
CheckStep ==
  /\ expression.node # "none"
  /\ check_result = "unchecked"
  /\ LET checked == check_expression(checker_errors, expression)
     IN  /\ check_result' = checked.type
         /\ checker_errors' = checked.errors
  /\ UNCHANGED <<expression, encoder, instructions, constants, overflow_checks, string_table, stack,
                 last_pop, ip, status, error>>

(***************************************************************************)
(* Loaders.  Each returns the outcome and where it has left ip: past the   *)
(* two operand bytes once they are read (`ip += 2`), before the constant   *)
(* is indexed and pushed.                                                  *)
(***************************************************************************)
load_constant(ins, consts, stk, tbl, ip0, span) ==
  IF ip0 + 3 > Len(ins)
  THEN [outcome |-> Panicked(stk, tbl, "read_uint16 out of range"), ip |-> ip0]
  ELSE LET const_index == read_uint16(ins, ip0 + 1)
       IN  IF const_index >= Len(consts)
           THEN [outcome |-> Panicked(stk, tbl, "index out of bounds"), ip |-> ip0 + 2]
           ELSE [outcome |-> push(stk, tbl, consts[const_index + 1], span), ip |-> ip0 + 2]

load_string(ins, stk, tbl, ip0, span) ==
  IF ip0 + 3 > Len(ins)
  THEN [outcome |-> Panicked(stk, tbl, "read_uint16 out of range"), ip |-> ip0]
  ELSE [outcome |-> push(stk, tbl, StringLiteral(read_uint16(ins, ip0 + 1)), span),
        ip |-> ip0 + 2]

(***************************************************************************)
(* The dispatch loop of execute_bytecode: one action per arm.              *)
(***************************************************************************)
\* `while ip < self.instructions.len()` and the decoded opcode at ip.
Fetch(opcode) ==
  /\ status = "running"
  /\ ip < Len(instructions)
  /\ ToOpcode(instructions[ip + 1]) = opcode

\* Mutant: an Err is dropped and the loop goes on.
Finish_swallows_error(r, handler_ip, failed_ip) ==
  /\ stack' = r.stack
  /\ string_table' = r.string_table
  /\ error' = r.err
  /\ status' = IF r.res = "panic" THEN "panic" ELSE "running"
  /\ ip' = IF r.res = "panic" THEN failed_ip ELSE handler_ip + 1

\* Mutant: the handler does not move ip past its operand bytes.
Finish_ignores_operand_bytes(r, handler_ip, failed_ip) ==
  /\ stack' = r.stack
  /\ string_table' = r.string_table
  /\ error' = r.err
  /\ status' = CASE r.res = "ok" -> "running"
                 [] r.res = "err" -> "error"
                 [] r.res = "panic" -> "panic"
  /\ ip' = IF r.res = "ok" THEN ip + 1 ELSE failed_ip

\* The handler's outcome r applied.  On Ok the loop goes on from where the handler
\* left ip (handler_ip) with `ip += 1`; `?` returns an Err and a panic unwinds, and
\* ip is then left at failed_ip.
Finish(r, handler_ip, failed_ip) ==
  /\ stack' = r.stack
  /\ string_table' = r.string_table
  /\ error' = r.err
  /\ status' = CASE r.res = "ok" -> "running"
                 [] r.res = "err" -> "error"
                 [] r.res = "panic" -> "panic"
  /\ ip' = IF r.res = "ok" THEN handler_ip + 1 ELSE failed_ip

\* A loader that fails leaves ip at failed_ip.  In vm.rs the loader advances its own
\* copy (`mut ip: usize`) and the loop's ip is assigned on Ok only: it stays at the
\* opcode.  In loaders.rs the loader advances `self.ip` itself, and what it has added
\* stays.
ExecLoadConstant ==
  /\ Fetch("LoadConstant")
  /\ LET loaded == load_constant(instructions, constants, stack, string_table, ip,
                                 get_span(ip))
     IN  \E failed_ip \in {ip, loaded.ip} : Finish(loaded.outcome, loaded.ip, failed_ip)
  /\ UNCHANGED <<encoder, checker, instructions, constants, overflow_checks, last_pop>>

ExecLoadString ==
  /\ Fetch("LoadString")
  /\ LET loaded == load_string(instructions, stack, string_table, ip, get_span(ip))
     IN  \E failed_ip \in {ip, loaded.ip} : Finish(loaded.outcome, loaded.ip, failed_ip)
  /\ UNCHANGED <<encoder, checker, instructions, constants, overflow_checks, last_pop>>

ExecLoadNil ==
  /\ Fetch("LoadNil")
  /\ Finish(push(stack, string_table, NIL_LITERAL, get_span(ip)), ip, ip)
  /\ UNCHANGED <<encoder, checker, instructions, constants, overflow_checks, last_pop>>

ExecLoadBoolTrue ==
  /\ Fetch("LoadBoolTrue")
  /\ Finish(push(stack, string_table, BOOLEAN_TRUE, get_span(ip)), ip, ip)
  /\ UNCHANGED <<encoder, checker, instructions, constants, overflow_checks, last_pop>>

ExecLoadBoolFalse ==
  /\ Fetch("LoadBoolFalse")
  /\ Finish(push(stack, string_table, BOOLEAN_FALSE, get_span(ip)), ip, ip)
  /\ UNCHANGED <<encoder, checker, instructions, constants, overflow_checks, last_pop>>

ExecAdd ==
  /\ Fetch("Add")
  /\ Finish(binary_op_add(stack, string_table), ip, ip)
  /\ UNCHANGED <<encoder, checker, instructions, constants, overflow_checks, last_pop>>

\* The operation name handed to binary_op_numeric by each arm.
OperationName(opcode) ==
  CASE opcode = "Subtract" -> "subtraction"
    [] opcode = "Multiply" -> "multiplication"
    [] opcode = "Divide" -> "division"
    [] opcode = "Exponent" -> "exponentiation"

ExecBinaryNumeric ==
  \E opcode \in {"Subtract", "Multiply", "Divide", "Exponent"} :
    /\ Fetch(opcode)
    /\ Finish(binary_op_numeric(stack, string_table, OperationName(opcode)), ip, ip)
    /\ UNCHANGED <<encoder, checker, instructions, constants, overflow_checks, last_pop>>

ExecUnaryNegate ==
  /\ Fetch("UnaryNegate")
  /\ Finish(unary_negation_operation(stack, string_table, get_span(ip), overflow_checks),
            ip, ip)
  /\ UNCHANGED <<encoder, checker, instructions, constants, overflow_checks, last_pop>>

ExecUnaryNot ==
  /\ Fetch("UnaryNot")
  /\ Finish(unary_not_operation(stack, string_table), ip, ip)
  /\ UNCHANGED <<encoder, checker, instructions, constants, overflow_checks, last_pop>>

ExecCompare ==
  \E opcode \in {"CompareLess", "CompareLessEqual", "CompareGreater",
                 "CompareGreaterEqual", "CompareEqual", "CompareNotEqual"} :
    /\ Fetch(opcode)
    /\ Finish(compare_operation(stack, string_table, opcode, get_span(ip)), ip, ip)
    /\ UNCHANGED <<encoder, checker, instructions, constants, overflow_checks, last_pop>>

\* Mutant: the popped value is not recorded.
ExecPop_not_recorded ==
  /\ Fetch("Pop")
  /\ IF pop_check(stack) # NoError
     THEN Finish(Err(stack, string_table, pop_check(stack)), ip, ip)
     ELSE Finish(Ok(Popped(stack), string_table), ip, ip)
  /\ UNCHANGED <<encoder, checker, instructions, constants, overflow_checks, last_pop>>

\* self.last_pop = Some(self.pop_value()?)
ExecPop ==
  /\ Fetch("Pop")
  /\ IF pop_check(stack) # NoError
     THEN /\ Finish(Err(stack, string_table, pop_check(stack)), ip, ip)
          /\ UNCHANGED last_pop
     ELSE /\ Finish(Ok(Popped(stack), string_table), ip, ip)
          /\ last_pop' = <<Top(stack).value>>
  /\ UNCHANGED <<encoder, checker, instructions, constants, overflow_checks>>

\* Mutant: Halt is a no-op and the loop goes on.
ExecHalt_continues ==
  /\ Fetch("Halt")
  /\ ip' = ip + 1
  /\ UNCHANGED <<encoder, checker, instructions, constants, overflow_checks, string_table, stack, last_pop, status, error>>

\* return Ok(())
ExecHalt ==
  /\ Fetch("Halt")
  /\ status' = "ok"
  /\ UNCHANGED <<encoder, checker, instructions, constants, overflow_checks, string_table, stack, last_pop, ip, error>>

\* to_opcode's unreachable!() on a byte that is no opcode tag.
DecodeFault ==
  /\ Fetch("invalid")
  /\ status' = "panic"
  /\ error' = Panic("Cannot convert byte to an opcode")
  /\ UNCHANGED <<encoder, checker, instructions, constants, overflow_checks, string_table, stack, last_pop, ip>>

\* Mutant: falling off the end of the stream returns Ok(()).
StreamExhausted_returns_ok ==
  /\ status = "running"
  /\ ip >= Len(instructions)
  /\ status' = "ok"
  /\ UNCHANGED <<encoder, checker, instructions, constants, overflow_checks, string_table, stack, last_pop, ip, error>>

\* The loop ends without a Halt: unreachable!().
StreamExhausted ==
  /\ status = "running"
  /\ ip >= Len(instructions)
  /\ status' = "panic"
  /\ error' = Panic("unreachable")
  /\ UNCHANGED <<encoder, checker, instructions, constants, overflow_checks, string_table, stack, last_pop, ip>>

Next ==
  \/ ExecLoadConstant
  \/ ExecLoadString
  \/ ExecLoadNil
  \/ ExecLoadBoolTrue
  \/ ExecLoadBoolFalse
  \/ ExecAdd
  \/ ExecBinaryNumeric
  \/ ExecUnaryNegate
  \/ ExecUnaryNot
  \/ ExecCompare
  \/ ExecPop
  \/ ExecHalt
  \/ DecodeFault
  \/ StreamExhausted

(***************************************************************************)
(* The bytecode artifacts the machine is started on.                       *)
(***************************************************************************)
\* Every sequence of at most MaxShort instructions is tried.
MaxShort == 2

Bytecode(ins, consts, tbl) ==
  [instructions |-> ins, constants |-> consts, string_table |-> tbl]

\* "ab", "cd", "abcd", "": distinct texts, as the compiler's interning leaves them.
StringTable == << <<"a", "b">>, <<"c", "d">>, <<"a", "b", "c", "d">>, <<>> >>

\* Integer constants: small ones and both ends of the i32 range.
PoolInt ==
  <<IntegerLiteral(2), IntegerLiteral(3), IntegerLiteral(6), IntegerLiteral(1),
    IntegerLiteral(0), IntegerLiteral(-2), IntegerLiteral(I32_MAX),
    IntegerLiteral(I32_MIN)>>

\* Integers, floats (2.0, 0.5, -1.5) and a string.
PoolMix ==
  <<IntegerLiteral(2), IntegerLiteral(3), IntegerLiteral(0), FloatLiteral(Fin(2, 1)),
    FloatLiteral(Fin(1, 2)), FloatLiteral(Fin(-3, 2)), StringLiteral(1)>>

LoadConstants(consts) == {Instruction("LoadConstant", <<k>>) : k \in 0..(Len(consts) - 1)}

LoadStrings == {Instruction("LoadString", <<k>>) : k \in 0..(Len(StringTable) - 1)}

LoadLiterals == {Instruction(op, <<>>) : op \in {"LoadNil", "LoadBoolTrue", "LoadBoolFalse"}}

BinaryOps ==
  {Instruction(op, <<>>) : op \in {"Add", "Subtract", "Multiply", "Divide", "Exponent",
                            "CompareLess", "CompareLessEqual", "CompareGreater",
                            "CompareGreaterEqual", "CompareEqual", "CompareNotEqual"}}

UnaryOps == {Instruction(op, <<>>) : op \in {"UnaryNegate", "UnaryNot"}}

Enders == {Instruction(op, <<>>) : op \in {"Pop", "Halt"}}

Tails ==
  {<<>>, Instruction("Halt", <<>>), Instruction("Pop", <<>>) \o Instruction("Halt", <<>>),
   Instruction("UnaryNegate", <<>>) \o Instruction("Halt", <<>>),
   Instruction("Halt", <<>>) \o Instruction("Pop", <<>>)}

AllInstructions(consts) ==
  LoadConstants(consts) \cup LoadStrings \cup LoadLiterals \cup BinaryOps
    \cup UnaryOps \cup Enders

RECURSIVE Programs(_, _)
\* Every sequence of at most n instructions of the set alphabet.
Programs(alphabet, n) ==
  IF n = 0 THEN {<<>>}
  ELSE LET shorter == Programs(alphabet, n - 1)
       IN  shorter \cup {p \o i : p \in shorter, i \in alphabet}

\* left, right, operator, tail - over one constant pool.
BinaryPrograms(loads) ==
  {l \o r \o op \o t : l \in loads, r \in loads, op \in BinaryOps, t \in Tails}

UnaryPrograms(loads) ==
  {l \o op \o t : l \in loads, op \in UnaryOps, t \in Tails}

\* Two additions of strings, one after the other, then an optional comparison.
ConcatPrograms ==
  {a \o b \o Instruction("Add", <<>>) \o c \o d \o Instruction("Add", <<>>) \o t :
     a \in LoadStrings, b \in LoadStrings, c \in LoadStrings, d \in LoadStrings,
     t \in {Instruction("Halt", <<>>), Instruction("CompareEqual", <<>>) \o Instruction("Pop", <<>>)}}

\* A concatenation compared with a string loaded from the table or from the pool.
ConcatComparePrograms ==
  {a \o b \o Instruction("Add", <<>>) \o c \o Instruction(op, <<>>) :
     a \in LoadStrings, b \in LoadStrings,
     c \in LoadStrings \cup {Instruction("LoadConstant", <<6>>)},
     op \in {"CompareEqual", "CompareNotEqual"}}

\* The zeros: Float +0.0, Integer 0, Float -0.0.
ZeroPool == <<FloatLiteral(Fin(0, 1)), IntegerLiteral(0), FloatLiteral(Special("nzero"))>>

\* A unary operator on each zero.
ZeroPrograms ==
  {load \o op \o Instruction("Halt", <<>>) : load \in LoadConstants(ZeroPool), op \in UnaryOps}

\* [LoadConstant 0, LoadConstant 1, Add, Pop, Halt] over constants [Integer(a), Integer(b)].
ScenarioProgram ==
  Instruction("LoadConstant", <<0>>) \o Instruction("LoadConstant", <<1>>) \o Instruction("Add", <<>>)
    \o Instruction("Pop", <<>>) \o Instruction("Halt", <<>>)

ScenarioInts == {2, 3, -2, 0, I32_MAX, I32_MIN}

ScenarioArtifacts ==
  {Bytecode(ScenarioProgram, <<IntegerLiteral(a), IntegerLiteral(b)>>, StringTable) :
     a \in ScenarioInts, b \in ScenarioInts}

\* [LoadBoolTrue, LoadConstant 0, Add, Halt] over constants [Integer(1)].
ErrorScenarioProgram ==
  Instruction("LoadBoolTrue", <<>>) \o Instruction("LoadConstant", <<0>>) \o Instruction("Add", <<>>)
    \o Instruction("Halt", <<>>)

ErrorScenarioArtifacts ==
  {Bytecode(ErrorScenarioProgram, <<IntegerLiteral(1)>>, StringTable)}

\* Streams that are not sequences of instructions: a byte that is no opcode tag, an
\* operand cut short, a constant index beyond the pool.
RawPrograms ==
  {<<0>>, <<255>>, <<5, 0>>, <<3>>, <<3, 0>>, <<4>>, <<4, 0>>, <<5, 3, 0>>, <<5, 21>>,
   <<3, 0, 9>>, <<5, 3, 0, 9, 1>>}

WithPool(programs, consts) == {Bytecode(p, consts, StringTable) : p \in programs}

Artifacts ==
  WithPool(Programs(AllInstructions(PoolMix), MaxShort), PoolMix)
    \cup WithPool(BinaryPrograms(LoadConstants(PoolMix) \cup LoadStrings \cup LoadLiterals),
                  PoolMix)
    \cup WithPool(UnaryPrograms(LoadConstants(PoolMix) \cup LoadStrings \cup LoadLiterals),
                  PoolMix)
    \cup WithPool(BinaryPrograms(LoadConstants(PoolInt)), PoolInt)
    \cup WithPool(UnaryPrograms(LoadConstants(PoolInt)), PoolInt)
    \cup WithPool(ConcatPrograms, PoolMix)
    \cup WithPool(ConcatComparePrograms, PoolMix)
    \cup WithPool(ZeroPrograms, ZeroPool)
    \cup WithPool(RawPrograms, PoolMix)
    \cup ScenarioArtifacts
    \cup ErrorScenarioArtifacts

\* HydorVM::new(bytecode) and the `let mut ip = 0` of execute_bytecode.
InitFrom(artifacts) ==
  \E bytecode \in artifacts :
    /\ instructions = bytecode.instructions
    /\ constants = bytecode.constants
    /\ overflow_checks \in BOOLEAN
    /\ string_table = bytecode.string_table
    /\ stack = <<>>
    /\ last_pop = <<>>
    /\ ip = 0
    /\ status = "running"
    /\ error = NoError
    /\ EncoderAtRest
    /\ CheckerAtRest

Init == InitFrom(Artifacts)

Spec == Init /\ [][Next]_vars

\* execute_bytecode is a loop that never waits: a run that can step does step.
SpecFair == Spec /\ WF_vars(Next)

(***************************************************************************)
(* Artifacts that fill the operand stack: MAX_STACK pushes, then one more  *)
(* push of each kind.                                                      *)
(***************************************************************************)
Pushes ==
  {Instruction("LoadNil", <<>>), Instruction("LoadConstant", <<0>>), Instruction("LoadString", <<0>>)}

DeepPrograms ==
  {[i \in 1..MAX_STACK |-> OpcodeByte("LoadNil")] \o last \o Instruction("Halt", <<>>) :
     last \in Pushes}

\* Beside them, every sequence of at most DeepShort instructions.
DeepShort == 1

DeepArtifacts ==
  WithPool(DeepPrograms, PoolMix)
    \cup WithPool(Programs(AllInstructions(PoolMix), DeepShort), PoolMix)
    \cup WithPool(RawPrograms, PoolMix)

\* The stack the loop has built after the first k LoadNil instructions of a deep
\* program: slot i holds Nil under the span of offset i - 1.
AfterPushes(k) == [i \in 1..k |-> StackValue(NIL_LITERAL, get_span(i - 1))]

\* A deep run observed from its last LoadNil but one on.  The state is the one the
\* run from InitFrom reaches after MAX_STACK - 1 steps, so it adds no state to the
\* graph; it keeps the behaviours that end in a full stack short.
ResumeDeep ==
  \E bytecode \in WithPool(DeepPrograms, PoolMix) :
    /\ instructions = bytecode.instructions
    /\ constants = bytecode.constants
    /\ overflow_checks \in BOOLEAN
    /\ string_table = bytecode.string_table
    /\ stack = AfterPushes(MAX_STACK - 1)
    /\ last_pop = <<>>
    /\ ip = MAX_STACK - 1
    /\ status = "running"
    /\ error = NoError
    /\ EncoderAtRest
    /\ CheckerAtRest

InitDeep == InitFrom(DeepArtifacts) \/ ResumeDeep

SpecDeep == InitDeep /\ [][Next]_vars

\* Programs that fill the stack to MAX_STACK with two Integers on top and then run
\* one binary operation.
FullStackPrograms ==
  {[i \in 1..(MAX_STACK - 2) |-> OpcodeByte("LoadNil")]
     \o Instruction("LoadConstant", <<0>>) \o Instruction("LoadConstant", <<1>>)
     \o op \o Instruction("Halt", <<>>) : op \in BinaryOps}

\* A run of such a program observed after its MAX_STACK - 2 LoadNil instructions.
ResumeFull ==
  \E bytecode \in WithPool(FullStackPrograms, PoolMix) :
    /\ instructions = bytecode.instructions
    /\ constants = bytecode.constants
    /\ overflow_checks \in BOOLEAN
    /\ string_table = bytecode.string_table
    /\ stack = AfterPushes(MAX_STACK - 2)
    /\ last_pop = <<>>
    /\ ip = MAX_STACK - 2
    /\ status = "running"
    /\ error = NoError
    /\ EncoderAtRest
    /\ CheckerAtRest

\* The runs of Spec, and the runs that reach a full stack before a binary operation.
InitStack == Init \/ ResumeFull

SpecStack == InitStack /\ [][Next]_vars

(***************************************************************************)
(* Artifacts whose load operands leave the constant pool or the string     *)
(* table, beside the artifacts above.                                      *)
(***************************************************************************)
\* LoadString with the first index past the table, the next one, and the largest.
OutOfRangeStrings ==
  {Instruction("LoadString", <<k>>) : k \in {Len(StringTable), Len(StringTable) + 1, 65535}}

\* LoadConstant with the first index past the pool, the next one, and the largest.
OutOfRangeConstants(consts) ==
  {Instruction("LoadConstant", <<k>>) : k \in {Len(consts), Len(consts) + 1, 65535}}

\* What follows the load: nothing, or instructions that use or drop its value.
Followers ==
  {<<>>,
   Instruction("Halt", <<>>),
   Instruction("Pop", <<>>) \o Instruction("Halt", <<>>),
   Instruction("UnaryNot", <<>>) \o Instruction("Halt", <<>>),
   Instruction("LoadNil", <<>>) \o Instruction("Halt", <<>>),
   Instruction("LoadString", <<0>>) \o Instruction("Add", <<>>) \o Instruction("Halt", <<>>),
   Instruction("LoadString", <<0>>) \o Instruction("CompareEqual", <<>>) \o Instruction("Halt", <<>>)}

OutOfRangePrograms(consts) ==
  {before \o load \o after :
     before \in {<<>>, Instruction("LoadNil", <<>>)},
     load \in OutOfRangeStrings \cup OutOfRangeConstants(consts),
     after \in Followers}

\* A pool whose String constant points past the table.
DanglingPool == <<StringLiteral(Len(StringTable)), IntegerLiteral(1)>>

DanglingPoolPrograms == {Instruction("LoadConstant", <<0>>) \o after : after \in Followers}

RawArtifacts ==
  Artifacts
    \cup WithPool(OutOfRangePrograms(PoolMix), PoolMix)
    \cup WithPool(DanglingPoolPrograms, DanglingPool)

InitRaw == InitFrom(RawArtifacts)

SpecRaw == InitRaw /\ [][Next]_vars

(***************************************************************************)
(* The encoder and the type checker on their own: no artifact is loaded    *)
(* and the machine does not run.                                           *)
(***************************************************************************)
MachineAtRest ==
  /\ instructions = <<>>
  /\ constants = <<>>
  /\ overflow_checks \in BOOLEAN
  /\ string_table = <<>>
  /\ stack = <<>>
  /\ last_pop = <<>>
  /\ ip = 0
  /\ status = "idle"
  /\ error = NoError

\* make is called once, with any opcode and any operand list it accepts.
InitMake ==
  /\ MachineAtRest
  /\ CheckerAtRest
  /\ \E opcode \in {OpCodes[b] : b \in 1..Len(OpCodes)} :
       \E operands \in MakeOperandLists(opcode) :
         /\ make_opcode = opcode
         /\ make_operands = operands
         /\ make_instructions = <<>>
         /\ make_status = "none"

NextMake == MakeStep

SpecMake == InitMake /\ [][NextMake]_vars

\* A span of `width` columns from `start_column` on, on line 1.
SpanAt(start_column, width) == Span(1, start_column, start_column + width - 1)

LiteralsAt(start_column, width) ==
  {Literal(kind, SpanAt(start_column, width)) : kind \in LiteralKinds}

\* The operators of the operations that are operands of another operation.
InnerOperators == {"Plus", "Minus", "LessThan", "Equal"}

\* A literal, or one operation on two literals.
SimpleAt(start_column, width) ==
  LiteralsAt(start_column, width)
    \cup {BinaryOperation(left, operator, right, SpanAt(start_column, width)) :
            left \in LiteralsAt(start_column, width \div 2),
            operator \in InnerOperators,
            right \in LiteralsAt(start_column + width \div 2, width \div 2)}

\* The expressions checked: the simple ones, and every operator on two simple ones.
Expressions ==
  SimpleAt(1, 8)
    \cup {BinaryOperation(left, operator, right, SpanAt(1, 8)) :
            left \in SimpleAt(1, 4),
            operator \in BinaryOperators,
            right \in SimpleAt(5, 4)}

\* TypeChecker::new() and the expression the driver hands to it.
InitCheck ==
  /\ MachineAtRest
  /\ EncoderAtRest
  /\ expression \in Expressions
  /\ check_result = "unchecked"
  /\ checker_errors = <<>>

NextCheck == CheckStep

SpecCheck == InitCheck /\ [][NextCheck]_vars

(***************************************************************************)
(* The checker and the machine on one expression: the expression is        *)
(* checked, and the code it lowers to is run, whatever the check says.     *)
(***************************************************************************)
\* A literal with its payload, given as the runtime value it stands for; the payload
\* of a string literal is the index of its text in the artifact's string table.
ValuedLiteral(value, span) ==
  [node |-> CASE value.t = "Integer" -> "IntegerLiteral"
              [] value.t = "Float" -> "FloatLiteral"
              [] value.t = "Boolean" -> "BooleanLiteral"
              [] value.t = "String" -> "StringLiteral",
   operator |-> "none", operands |-> <<>>, span |-> span, value |-> value]

\* The opcode the code generator emits for a binary operator.
operator_to_opcode(operator) ==
  CASE operator = "Plus" -> "Add"
    [] operator = "Minus" -> "Subtract"
    [] operator = "Asterisk" -> "Multiply"
    [] operator = "Slash" -> "Divide"
    [] operator = "Caret" -> "Exponent"
    [] operator = "LessThan" -> "CompareLess"
    [] operator = "LessThanEqual" -> "CompareLessEqual"
    [] operator = "GreaterThan" -> "CompareGreater"
    [] operator = "GreaterThanEqual" -> "CompareGreaterEqual"
    [] operator = "Equal" -> "CompareEqual"
    [] operator = "NotEqual" -> "CompareNotEqual"

\* The index of a constant in the pool.
constant_index(consts, value) ==
  CHOOSE k \in 0..(Len(consts) - 1) : consts[k + 1] = value

\* The code generator on an expression: a numeric literal loads its constant, a
\* Boolean literal its opcode, a string literal its table entry; a binary operation
\* is the code of the left operand, the code of the right operand, then the opcode.
RECURSIVE lower_expression(_, _)
lower_expression(consts, expr) ==
  CASE expr.node \in {"IntegerLiteral", "FloatLiteral"} ->
         Instruction("LoadConstant", <<constant_index(consts, expr.value)>>)
    [] expr.node = "BooleanLiteral" ->
         Instruction(IF expr.value = BOOLEAN_TRUE THEN "LoadBoolTrue" ELSE "LoadBoolFalse", <<>>)
    [] expr.node = "StringLiteral" -> Instruction("LoadString", <<expr.value.n>>)
    [] expr.node = "BinaryOperation" ->
         lower_expression(consts, expr.operands[1])
           \o lower_expression(consts, expr.operands[2])
           \o Instruction(operator_to_opcode(expr.operator), <<>>)

\* The artifact of an expression statement: the value is popped, then Halt.
lower(consts, expr) ==
  Bytecode(lower_expression(consts, expr) \o Instruction("Pop", <<>>) \o Instruction("Halt", <<>>),
           consts, StringTable)

\* The constants of the lowered artifacts.
LoweredPool ==
  <<IntegerLiteral(2), IntegerLiteral(3), IntegerLiteral(0), FloatLiteral(Fin(2, 1)),
    FloatLiteral(Fin(1, 2)), FloatLiteral(Fin(-3, 2))>>

\* The literal payloads: every constant, both Booleans, two texts.
LiteralValues ==
  {LoweredPool[k] : k \in 1..Len(LoweredPool)}
    \cup {BOOLEAN_TRUE, BOOLEAN_FALSE, StringLiteral(0), StringLiteral(1)}

\* One payload of each type.
InnerValues ==
  {IntegerLiteral(2), FloatLiteral(Fin(2, 1)), BOOLEAN_TRUE, StringLiteral(0)}

ValuedLiteralsAt(values, start_column, width) ==
  {ValuedLiteral(value, SpanAt(start_column, width)) : value \in values}

\* The operators of the operations that are operands in a lowered expression.
LoweredInnerOperators == {"Plus", "Minus", "Slash", "Caret", "LessThan", "Equal"}

\* One operation on two literals of InnerValues.
InnerOperationsAt(start_column, width) ==
  {BinaryOperation(left, operator, right, SpanAt(start_column, width)) :
     left \in ValuedLiteralsAt(InnerValues, start_column, width \div 2),
     operator \in LoweredInnerOperators,
     right \in ValuedLiteralsAt(InnerValues, start_column + width \div 2, width \div 2)}

\* Every operator on two literals, and every operator on an operation and a literal
\* in either order.
LoweredExpressions ==
  {BinaryOperation(left, operator, right, SpanAt(1, 8)) :
     left \in ValuedLiteralsAt(LiteralValues, 1, 4),
     operator \in BinaryOperators,
     right \in ValuedLiteralsAt(LiteralValues, 5, 4)}
  \cup
  {BinaryOperation(left, operator, right, SpanAt(1, 8)) :
     left \in InnerOperationsAt(1, 4),
     operator \in BinaryOperators,
     right \in ValuedLiteralsAt(InnerValues, 5, 4)}
  \cup
  {BinaryOperation(left, operator, right, SpanAt(1, 8)) :
     left \in ValuedLiteralsAt(InnerValues, 1, 4),
     operator \in BinaryOperators,
     right \in InnerOperationsAt(5, 4)}

\* The driver holds an expression: a fresh checker is to check it and a fresh
\* machine holds the artifact it lowers to.
InitLowered ==
  \E expr \in LoweredExpressions :
    /\ expression = expr
    /\ check_result = "unchecked"
    /\ checker_errors = <<>>
    /\ instructions = lower(LoweredPool, expr).instructions
    /\ constants = LoweredPool
    /\ overflow_checks \in BOOLEAN
    /\ string_table = StringTable
    /\ stack = <<>>
    /\ last_pop = <<>>
    /\ ip = 0
    /\ status = "running"
    /\ error = NoError
    /\ EncoderAtRest

NextLowered == CheckStep \/ Next

\* The machine also runs the artifacts of Spec, with no expression to check.
SpecLowered == (InitLowered \/ Init) /\ [][NextLowered]_vars

(***************************************************************************)
(* Properties of the machine.                                              *)
(***************************************************************************)
\* The opcode the loop is about to dispatch; "none" when it dispatches nothing.
OpAtIp ==
  IF status = "running" /\ ip < Len(instructions)
  THEN ToOpcode(instructions[ip + 1])
  ELSE "none"

ArithmeticOpcodes == {"Add", "Subtract", "Multiply", "Divide", "Exponent"}

CompareOpcodes ==
  {"CompareLess", "CompareLessEqual", "CompareGreater", "CompareGreaterEqual",
   "CompareEqual", "CompareNotEqual"}

\* The instruction at ip reads its operand bytes and calls push.
PushAttempted ==
  \/ OpAtIp \in {"LoadNil", "LoadBoolTrue", "LoadBoolFalse"}
  \/ OpAtIp = "LoadString" /\ ip + 3 <= Len(instructions)
  \/ /\ OpAtIp = "LoadConstant"
     /\ ip + 3 <= Len(instructions)
     /\ read_uint16(instructions, ip + 1) < Len(constants)

\* C1: in every reachable state the operand stack holds at most MAX_STACK slots, and
\* a push attempted on a stack of exactly MAX_STACK slots fails with StackOverflow
\* reporting stack_length = MAX_STACK and leaves the stack as it was.
C1_StackBound ==
  /\ [](Len(stack) <= MAX_STACK)
  /\ [][(PushAttempted /\ Len(stack) = MAX_STACK)
          => /\ status' = "error"
             /\ error' = StackOverflow(MAX_STACK, get_span(ip))
             /\ stack' = stack]_vars

\* A push has failed on a full stack.
C1_Witness ==
  /\ status = "error"
  /\ error.kind = "StackOverflow"
  /\ error.stack_length = MAX_STACK
  /\ Len(stack) = MAX_STACK

\* The number of stack slots the instruction at ip needs.
OperandsNeeded ==
  CASE OpAtIp \in {"Pop", "UnaryNegate", "UnaryNot"} -> 1
    [] OpAtIp \in ArithmeticOpcodes \cup CompareOpcodes -> 2
    [] OTHER -> 0

\* C2: an instruction that needs more operands than the stack holds ends the
\* execution with StackUnderflow - no other error kind and no internal fault.
C2_Underflow ==
  [][(Len(stack) < OperandsNeeded)
       => (status' = "error" /\ error'.kind = "StackUnderflow")]_vars

\* A binary opcode, reached after at least one instruction, has underflowed, and so
\* has, in another run, a one-operand opcode.
C2_Witness ==
  /\ status = "error"
  /\ error.kind = "StackUnderflow"
  /\ ip > 0
  /\ ToOpcode(instructions[ip + 1]) \in ArithmeticOpcodes \cup CompareOpcodes

\* No Pop opcode byte lies before ip, hence no Pop has executed.
NoPopBefore == \A i \in 1..ip : i <= Len(instructions) => instructions[i] # OpcodeByte("Pop")

\* [LoadConstant 0, LoadConstant 1, Add, Pop, Halt] over two Integer constants has
\* run to its Halt.
ScenarioDone ==
  /\ instructions = ScenarioProgram
  /\ Len(constants) = 2
  /\ status = "ok"

\* s = a + b, without forming a sum outside the i32 range.
IsSum(s, a, b) == SubFits(s, a) /\ s - a = b

\* a + b brought to the nearest bound of the i32 range.
ClampedSum(a, b) ==
  IF AddFits(a, b) THEN a + b ELSE IF a > 0 THEN I32_MAX ELSE I32_MIN

\* last_pop is None until a Pop succeeds, a successful Pop sets it to the value that
\* was on top, and no other step changes it.
LastPopTracksPop ==
  /\ [](NoPopBefore => last_pop = <<>>)
  /\ [][IF OpAtIp = "Pop" /\ Len(stack) > 0
        THEN last_pop' = <<Top(stack).value>>
        ELSE last_pop' = last_pop]_vars

\* C3 as stated: last_popped() follows the successful Pops only, and the scenario
\* ends with last_popped() = Integer(a + b) for all Integer constants a, b.
C3_AsStated ==
  /\ LastPopTracksPop
  /\ [](ScenarioDone =>
          /\ Len(last_pop) = 1
          /\ last_pop[1].t = "Integer"
          /\ IsSum(last_pop[1].n, constants[1].n, constants[2].n))

\* C3, amended: last_popped() follows the successful Pops only, and the scenario ends
\* with last_popped() = Integer(a + b) when a + b lies in the signed 32-bit range and
\* with the Integer of the nearest bound of that range otherwise.
C3_LastPopped ==
  /\ LastPopTracksPop
  /\ [](ScenarioDone =>
          last_pop = <<IntegerLiteral(ClampedSum(constants[1].n, constants[2].n))>>)

\* The scenario has ended on a sum beyond the i32 range.
C3_Witness ==
  /\ ScenarioDone
  /\ ~AddFits(constants[1].n, constants[2].n)
  /\ last_pop = <<IntegerLiteral(I32_MAX)>>

\* C4: Halt ends the execution with success at once: the stack, the string table and
\* the last popped value stay what they were, and nothing after the Halt is decoded
\* or executed.
C4_Halt ==
  /\ [][OpAtIp = "Halt"
          => /\ status' = "ok"
             /\ stack' = stack
             /\ string_table' = string_table
             /\ last_pop' = last_pop
             /\ error' = NoError]_vars
  /\ [][status = "ok" => UNCHANGED vars]_vars

\* A Halt has ended a run with a value on the stack and instructions after it.
C4_Witness ==
  /\ status = "ok"
  /\ Len(stack) > 0
  /\ ip + 1 < Len(instructions)

\* C5: success comes from a Halt only; when ip reaches the end of the stream (an
\* empty stream included) the execution ends in an internal fault, neither a success
\* nor a runtime error value.
C5_Exhausted ==
  /\ [](status = "ok" => (ip < Len(instructions) /\ ToOpcode(instructions[ip + 1]) = "Halt"))
  /\ [][(status = "running" /\ ip >= Len(instructions))
          => (status' = "panic" /\ error'.kind = "Panic")]_vars

\* A stream of at least one instruction has run off its end.
C5_Witness ==
  /\ status = "panic"
  /\ error = Panic("unreachable")
  /\ ip = Len(instructions)
  /\ ip > 0

\* C6: the first runtime fault ends the execution: the error is set by the step that
\* faults, nothing is decoded or executed after it, and the error stays that fault.
C6_FirstFault ==
  /\ [](status = "running" => error = NoError)
  /\ [](status = "error" => error.kind \notin {"None", "Panic"})
  /\ [][status = "error" => UNCHANGED vars]_vars

\* A fault has ended a run that had instructions left.
C6_Witness ==
  /\ status = "error"
  /\ ip + 1 < Len(instructions)

LeftOperand == stack[Len(stack) - 1]

RightOperand == stack[Len(stack)]

\* The operation name of the arithmetic opcode at ip.
ArithmeticName == IF OpAtIp = "Add" THEN "addition" ELSE OperationName(OpAtIp)

BothString == LeftOperand.value.t = "String" /\ RightOperand.value.t = "String"

\* An arithmetic opcode is at ip over two operands of which one is no number (and,
\* for Add, not both are Strings).
ArithmeticFaultCase ==
  /\ OpAtIp \in ArithmeticOpcodes
  /\ Len(stack) >= 2
  /\ ~is_number(LeftOperand.value) \/ ~is_number(RightOperand.value)
  /\ ~(OpAtIp = "Add" /\ BothString)

\* An arithmetic opcode is at ip over two numbers.
NumericCase ==
  /\ OpAtIp \in ArithmeticOpcodes
  /\ Len(stack) >= 2
  /\ is_number(LeftOperand.value)
  /\ is_number(RightOperand.value)

\* [LoadBoolTrue, LoadConstant 0, Add, Halt] over [Integer(1)] has stopped.
ErrorScenarioDone ==
  /\ instructions = ErrorScenarioProgram
  /\ constants = <<IntegerLiteral(1)>>
  /\ status # "running"

\* C7: the top of the stack is the right operand and the slot below it the left one;
\* a non-numeric operand (for Add, unless both are Strings) gives ArithmeticError
\* with the operation name, the two operand types, and the span of the left operand
\* when that one is non-numeric, of the right operand otherwise.
C7_ArithmeticError ==
  /\ [][ArithmeticFaultCase
          => /\ status' = "error"
             /\ error' = ArithmeticError(ArithmeticName,
                                         get_type(LeftOperand.value),
                                         get_type(RightOperand.value),
                                         IF ~is_number(LeftOperand.value)
                                         THEN LeftOperand.span
                                         ELSE RightOperand.span)]_vars
  /\ [][NumericCase
          => /\ status' = "running"
             /\ Top(stack').value
                  = compute_numeric(LeftOperand.value, RightOperand.value, ArithmeticName)]_vars
  /\ [](ErrorScenarioDone
          => /\ status = "error"
             /\ error = ArithmeticError("addition", "Boolean", "Integer", get_span(0)))

\* A division has failed on its right operand: the left one is a number and the
\* span is that of the second load.
C7_Witness ==
  /\ status = "error"
  /\ error.kind = "ArithmeticError"
  /\ error.operation = "division"
  /\ error.left_type = "Integer"
  /\ error.right_type = "Nil"
  /\ error.span = get_span(3)

BothInteger == LeftOperand.value.t = "Integer" /\ RightOperand.value.t = "Integer"

\* The mathematical result of the opcode on the integers a and b exists and has no
\* fractional part.
MathWhole(opcode, a, b) ==
  CASE opcode \in {"Add", "Subtract", "Multiply"} -> TRUE
    [] opcode = "Divide" ->
         IF b = 0 THEN FALSE
         ELSE IF b = I32_MIN THEN a = 0 \/ a = I32_MIN
         ELSE a % Abs(b) = 0
    [] opcode = "Exponent" -> b >= 0 \/ a \in {1, -1}

\* The f64 the closure of the opcode at ip returns on the two operands.
F64Result ==
  ApplyClosure(ArithmeticName, as_f64(LeftOperand.value), as_f64(RightOperand.value))

\* The four results the statement lists.
NarrowingExamples ==
  [][NumericCase =>
       LET l == LeftOperand.value
           r == RightOperand.value
           res == Top(stack').value
       IN  /\ (OpAtIp = "Divide" /\ l = IntegerLiteral(6) /\ r = IntegerLiteral(3))
                => res = IntegerLiteral(2)
           /\ (OpAtIp = "Divide" /\ l = IntegerLiteral(1) /\ r = IntegerLiteral(3))
                => res = FloatLiteral(Fin(1, 3))
           /\ (OpAtIp = "Exponent" /\ l = IntegerLiteral(2) /\ r = IntegerLiteral(3))
                => res = IntegerLiteral(8)
           /\ (OpAtIp = "Add" /\ l = FloatLiteral(Fin(2, 1)) /\ r = IntegerLiteral(2))
                => res = FloatLiteral(Fin(4, 1))
           /\ (is_float(l) \/ is_float(r)) => res.t = "Float"]_vars

\* C8 as stated: on two numbers the result is an Integer exactly when neither operand
\* is a Float and the mathematical result has no fractional part, a Float otherwise.
C8_AsStated ==
  /\ [][NumericCase =>
          /\ status' = "running"
          /\ Top(stack').value.t \in {"Integer", "Float"}
          /\ Top(stack').value.t = "Integer"
               <=> (BothInteger
                    /\ MathWhole(OpAtIp, LeftOperand.value.n, RightOperand.value.n))]_vars
  /\ NarrowingExamples

\* C8, amended: on two numbers the result is an Integer exactly when neither operand
\* is a Float and the double-precision result of the operation is finite and has no
\* fractional part, a Float otherwise.  For Add, Subtract, Multiply and Divide of
\* Integers, and for an Exponent that neither overflows to infinity nor underflows
\* to zero, that is when the mathematical result has no fractional part.
C8_Narrowing ==
  /\ [][NumericCase =>
          /\ status' = "running"
          /\ Top(stack').value.t \in {"Integer", "Float"}
          /\ Top(stack').value.t = "Integer" <=> (BothInteger /\ FIsWhole(F64Result))
          /\ (/\ BothInteger
              /\ \/ OpAtIp # "Exponent"
                 \/ /\ F64Result.k \notin {"pinf", "ninf"}
                    /\ ~(IsZero(F64Result) /\ LeftOperand.value.n # 0))
               => (Top(stack').value.t = "Integer"
                     <=> MathWhole(OpAtIp, LeftOperand.value.n, RightOperand.value.n))]_vars
  /\ NarrowingExamples

\* Integer(2) ^ Integer(2147483647) has left the Float infinity on the stack.
C8_Witness ==
  /\ constants = PoolInt
  /\ ip = 7
  /\ ToOpcode(instructions[7]) = "Exponent"
  /\ read_uint16(instructions, 1) = 0
  /\ read_uint16(instructions, 4) = 6
  /\ Len(stack) = 1
  /\ Top(stack).value = FloatLiteral(Special("pinf"))

\* Add is at ip over two Strings whose indices are in the table.
ConcatCase ==
  /\ OpAtIp = "Add"
  /\ Len(stack) >= 2
  /\ BothString
  /\ InTable(string_table, LeftOperand.value.n)
  /\ InTable(string_table, RightOperand.value.n)

\* The left operand's text followed by the right operand's.
ConcatText ==
  resolve_string(string_table, LeftOperand.value.n)
    \o resolve_string(string_table, RightOperand.value.n)

\* C9: Add on two Strings never fails with ArithmeticError; it replaces them by one
\* String whose index resolves to the left text followed by the right text; the
\* table grows by that one text when it did not hold it and is unchanged when it
\* did, so the same concatenation made again gives the same index.
C9_Concat ==
  /\ [][(OpAtIp = "Add" /\ Len(stack) >= 2 /\ BothString)
          => error'.kind # "ArithmeticError"]_vars
  /\ [][ConcatCase =>
          LET pushed == Top(stack').value
          IN  /\ status' = "running"
              /\ Len(stack') = Len(stack) - 1
              /\ pushed.t = "String"
              /\ InTable(string_table', pushed.n)
              /\ resolve_string(string_table', pushed.n) = ConcatText
              /\ IF \E i \in 1..Len(string_table) : string_table[i] = ConcatText
                 THEN string_table' = string_table
                 ELSE /\ string_table' = Append(string_table, ConcatText)
                      /\ pushed.n = Len(string_table)]_vars
  /\ [](\A i, j \in 1..Len(stack) :
          (/\ stack[i].value.t = "String"
           /\ stack[j].value.t = "String"
           /\ resolve_string(string_table, stack[i].value.n)
                = resolve_string(string_table, stack[j].value.n))
            => stack[i].value.n = stack[j].value.n)

\* One concatenation made twice: both results hold the index of the one entry added.
C9_Witness ==
  /\ Len(stack) = 2
  /\ stack[1].value = StringLiteral(Len(StringTable))
  /\ stack[2].value = StringLiteral(Len(StringTable))
  /\ string_table = Append(StringTable, <<"a", "b", "a", "b">>)

\* No text is held twice.
Distinct(tbl) == \A i, j \in 1..Len(tbl) : tbl[i] = tbl[j] => i = j

\* Texts to intern: every concatenation of two entries, and a text the table never holds.
InternTexts ==
  {string_table[i] \o string_table[j] : i, j \in 1..Len(string_table)} \cup {<<"z">>}

\* C10: the string table never holds two equal entries, and interning one text twice
\* returns the same index both times.
C10_Distinct ==
  /\ Distinct(string_table)
  /\ \A s \in InternTexts :
       LET first == intern_string(string_table, s)
           second == intern_string(first.string_table, s)
       IN  /\ second.index = first.index
           /\ second.string_table = first.string_table
           /\ resolve_string(first.string_table, first.index) = s
           /\ Distinct(first.string_table)

\* Two different concatenations have each added their text to the table.
C10_Witness ==
  /\ Len(string_table) = Len(StringTable) + 2
  /\ Len(stack) = 2
  /\ stack[1].value # stack[2].value

\* CompareEqual or CompareNotEqual is at ip over two Strings whose indices are in
\* the table.
StringEqualityCase ==
  /\ OpAtIp \in {"CompareEqual", "CompareNotEqual"}
  /\ Len(stack) >= 2
  /\ BothString
  /\ InTable(string_table, LeftOperand.value.n)
  /\ InTable(string_table, RightOperand.value.n)

\* The two operands resolve to the same text.
SameText ==
  resolve_string(string_table, LeftOperand.value.n)
    = resolve_string(string_table, RightOperand.value.n)

\* C11: on two Strings CompareEqual pushes Boolean(true) exactly when the two indices
\* resolve to equal text in the string table, wherever the strings came from, and
\* CompareNotEqual pushes the negation.
C11_StringEquality ==
  [][StringEqualityCase =>
       /\ status' = "running"
       /\ Len(stack') = Len(stack) - 1
       /\ Top(stack').value
            = BooleanLiteral(IF OpAtIp = "CompareEqual" THEN SameText ELSE ~SameText)]_vars

\* "ab" + "cd", which found its text in the table, has compared equal to a string
\* loaded by LoadString.
C11_Witness ==
  /\ ip = 11
  /\ ToOpcode(instructions[7]) = "Add"
  /\ ToOpcode(instructions[8]) = "LoadString"
  /\ ToOpcode(instructions[11]) = "CompareEqual"
  /\ string_table = StringTable
  /\ Len(stack) = 1
  /\ Top(stack).value = BOOLEAN_TRUE

RECURSIVE LoadStringsInRange(_, _)
\* Every complete LoadString instruction of ins, decoded from offset on, has an
\* operand that is an index of the artifact's string table.
LoadStringsInRange(ins, offset) ==
  IF offset >= Len(ins) THEN TRUE
  ELSE LET opcode == ToOpcode(ins[offset + 1])
       IN  IF opcode = "invalid" THEN TRUE
           ELSE IF operands_width(opcode) = <<2>>
           THEN IF offset + 3 > Len(ins) THEN TRUE
                ELSE /\ opcode = "LoadString"
                          => InTable(StringTable, read_uint16(ins, offset + 1))
                     /\ LoadStringsInRange(ins, offset + 3)
           ELSE LoadStringsInRange(ins, offset + 1)

\* Every String of the constant pool is an index of the artifact's string table.
StringConstantsInRange ==
  \A i \in 1..Len(constants) :
    constants[i].t = "String" => InTable(StringTable, constants[i].n)

\* C12: when every LoadString operand and every String constant of the artifact is an
\* index of its string table, every String on the operand stack or recorded as last
\* popped has an index below the current length of the string table.
C12_IndicesValid ==
  (LoadStringsInRange(instructions, 0) /\ StringConstantsInRange)
    => /\ \A i \in 1..Len(stack) :
            stack[i].value.t = "String" => InTable(string_table, stack[i].value.n)
       /\ \A i \in 1..Len(last_pop) :
            last_pop[i].t = "String" => InTable(string_table, last_pop[i].n)

\* A concatenation has added a text and its String has been popped.
C12_Witness ==
  /\ LoadStringsInRange(instructions, 0)
  /\ StringConstantsInRange
  /\ Len(string_table) = Len(StringTable) + 1
  /\ last_pop = <<StringLiteral(Len(StringTable))>>

\* A load whose operand bytes are there and whose index is out of range is at ip.
OutOfRangeLoad ==
  /\ ip + 3 <= Len(instructions)
  /\ \/ /\ OpAtIp = "LoadConstant"
        /\ read_uint16(instructions, ip + 1) >= Len(constants)
     \/ /\ OpAtIp = "LoadString"
        /\ read_uint16(instructions, ip + 1) >= Len(string_table)

\* C13: a LoadConstant or LoadString whose index is out of range stops the execution
\* with an internal fault at that instruction: nothing is pushed for it and no later
\* instruction is executed.
C13_OutOfRangeLoad ==
  /\ [][OutOfRangeLoad
          => /\ status' = "panic"
             /\ stack' = stack
             /\ ip' = ip]_vars
  /\ [][status = "panic" => UNCHANGED vars]_vars

\* b is the arithmetic negation of the i32 a, without forming a sum out of range.
IsNegation(b, a) == AddFits(b, a) /\ b + a = 0

\* C14: UnaryNegate on a numeric top always succeeds, the most negative Integer
\* included: the slot keeps its span, the stack its length, the value its variant and
\* becomes its arithmetic negation; on a non-numeric top it fails with
\* UnaryOperationError{negation, type of the top} whose span runs from the
\* instruction's line and start column to the operand's end column.
C14_Negate ==
  [][(OpAtIp = "UnaryNegate" /\ Len(stack) >= 1) =>
       LET target == Top(stack)
       IN  IF is_number(target.value)
           THEN /\ status' = "running"
                /\ Len(stack') = Len(stack)
                /\ Popped(stack') = Popped(stack)
                /\ Top(stack').span = target.span
                /\ Top(stack').value.t = target.value.t
                /\ IF target.value.t = "Integer"
                   THEN IsNegation(Top(stack').value.n, target.value.n)
                   ELSE Top(stack').value = FloatLiteral(FNeg(as_f64(target.value)))
           ELSE /\ status' = "error"
                /\ stack' = stack
                /\ error' = UnaryOperationError("negation", get_type(target.value),
                              Span(get_span(ip).line, get_span(ip).start_column,
                                   target.span.end_column))]_vars

\* C15: UnaryNot on a non-empty stack succeeds whatever the top value is and replaces
\* it in place, the slot's span and the stack's length unchanged, by Boolean(true)
\* when it is Boolean(false) or Nil and by Boolean(false) otherwise - Integer(0),
\* Float zero and the empty string included.
C15_Not ==
  [][(OpAtIp = "UnaryNot" /\ Len(stack) >= 1) =>
       LET target == Top(stack)
           falsy == \/ target.value.t = "Nil"
                    \/ target.value.t = "Boolean" /\ target.value.n = 0
       IN  /\ status' = "running"
           /\ Len(stack') = Len(stack)
           /\ Popped(stack') = Popped(stack)
           /\ Top(stack').span = target.span
           /\ Top(stack').value = BooleanLiteral(falsy)]_vars

\* UnaryNot has turned the Float zero into Boolean(false).
C15_Witness ==
  /\ constants = ZeroPool
  /\ read_uint16(instructions, 1) = 0
  /\ ToOpcode(instructions[4]) = "UnaryNot"
  /\ ip = 4
  /\ stack = <<StackValue(BOOLEAN_FALSE, get_span(0))>>

\* A comparison opcode is at ip over two numbers.
NumericCompareCase ==
  /\ OpAtIp \in CompareOpcodes
  /\ Len(stack) >= 2
  /\ is_number(LeftOperand.value)
  /\ is_number(RightOperand.value)

\* The numbers l and r are finite and given exactly: integers, or fractions small
\* enough to cross-multiply.
ExactPair(l, r) ==
  /\ l.k = "fin"
  /\ r.k = "fin"
  /\ (l.d = 1 /\ r.d = 1) \/ (Small(l) /\ Small(r))

\* l < r and l = r for an exact pair, as numbers.
NumLess(l, r) == IF l.d = 1 /\ r.d = 1 THEN l.n < r.n ELSE l.n * r.d < r.n * l.d

NumEqual(l, r) == IF l.d = 1 /\ r.d = 1 THEN l.n = r.n ELSE l.n * r.d = r.n * l.d

\* The relation of a comparison opcode between two exact numbers.
Relation(opcode, l, r) ==
  CASE opcode = "CompareLess" -> NumLess(l, r)
    [] opcode = "CompareLessEqual" -> NumLess(l, r) \/ NumEqual(l, r)
    [] opcode = "CompareGreater" -> NumLess(r, l)
    [] opcode = "CompareGreaterEqual" -> NumLess(r, l) \/ NumEqual(l, r)
    [] opcode = "CompareEqual" -> NumEqual(l, r)
    [] opcode = "CompareNotEqual" -> ~NumEqual(l, r)

\* C16: each comparison opcode on two numbers, Integer or Float in any mix, pops both
\* and pushes Boolean(left R right), R the opcode's relation on the widened values and
\* left the lower slot; CompareEqual on Integer(2) and Float(2.0) pushes Boolean(true).
C16_NumericCompare ==
  [][NumericCompareCase =>
       LET l == LeftOperand.value
           r == RightOperand.value
       IN  /\ status' = "running"
           /\ Len(stack') = Len(stack) - 1
           /\ Popped(stack') = Popped(Popped(stack))
           /\ Top(stack').value.t = "Boolean"
           /\ ExactPair(l, r) => Top(stack').value = BooleanLiteral(Relation(OpAtIp, l, r))
           /\ (OpAtIp = "CompareEqual" /\ l = IntegerLiteral(2) /\ r = FloatLiteral(Fin(2, 1)))
                => Top(stack').value = BOOLEAN_TRUE]_vars

\* CompareLess on Float(-1.5), below, and Integer(2), on top, has pushed Boolean(true).
C16_Witness ==
  /\ constants = PoolMix
  /\ Len(instructions) >= 7
  /\ read_uint16(instructions, 1) = 5
  /\ read_uint16(instructions, 4) = 0
  /\ ToOpcode(instructions[7]) = "CompareLess"
  /\ ip = 7
  /\ Len(stack) = 1
  /\ Top(stack).value = BOOLEAN_TRUE

\* A comparison opcode is at ip over two operands that are not both numbers.
NonNumericCompareCase ==
  /\ OpAtIp \in CompareOpcodes
  /\ Len(stack) >= 2
  /\ ~(is_number(LeftOperand.value) /\ is_number(RightOperand.value))

\* The operator symbol of an ordering opcode.
OrderingSymbol ==
  CASE OpAtIp = "CompareLess" -> "<"
    [] OpAtIp = "CompareLessEqual" -> "<="
    [] OpAtIp = "CompareGreater" -> ">"
    [] OpAtIp = "CompareGreaterEqual" -> ">="

\* C17: on operands that are not both numbers CompareEqual and CompareNotEqual never
\* fail and push a Boolean, operands of different variants being unequal; the four
\* ordering opcodes fail with ComparisonOperationError whose operation is the operator
\* symbol and whose blame_type is the left operand's type when the left operand is
\* non-numeric and the right operand's type otherwise.
C17_NonNumericCompare ==
  [][NonNumericCompareCase =>
       LET l == LeftOperand.value
           r == RightOperand.value
       IN  IF OpAtIp \in {"CompareEqual", "CompareNotEqual"}
           THEN /\ status' = "running"
                /\ Len(stack') = Len(stack) - 1
                /\ Top(stack').value.t = "Boolean"
                /\ l.t # r.t
                     => Top(stack').value = BooleanLiteral(OpAtIp = "CompareNotEqual")
                /\ (l.t = r.t /\ l.t \in {"Boolean", "Nil"})
                     => Top(stack').value
                          = BooleanLiteral((l = r) <=> (OpAtIp = "CompareEqual"))
           ELSE /\ status' = "error"
                /\ error'.kind = "ComparisonOperationError"
                /\ error'.operation = OrderingSymbol
                /\ error'.blame_type
                     = (IF ~is_number(l) THEN get_type(l) ELSE get_type(r))]_vars

\* CompareGreaterEqual on Integer(2), below, and Nil, on top, has failed blaming Nil.
C17_Witness ==
  /\ constants = PoolMix
  /\ Len(instructions) >= 5
  /\ ToOpcode(instructions[1]) = "LoadConstant"
  /\ read_uint16(instructions, 1) = 0
  /\ ToOpcode(instructions[4]) = "LoadNil"
  /\ ToOpcode(instructions[5]) = "CompareGreaterEqual"
  /\ status = "error"
  /\ error.kind = "ComparisonOperationError"
  /\ error.operation = ">="
  /\ error.blame_type = "Nil"

\* make has been applied to an operand list that has one operand of 16 bits for
\* every declared width.
MakeCase ==
  /\ make_instructions # <<>>
  /\ Len(make_operands) = Len(operands_width(make_opcode))
  /\ \A i \in 1..Len(make_operands) : make_operands[i] \in 0..65535

RECURSIVE SumOf(_)
SumOf(widths) == IF widths = <<>> THEN 0 ELSE Head(widths) + SumOf(Tail(widths))

\* The offset of the i-th operand field within an instruction.
FieldOffset(widths, i) == 1 + SumOf(SubSeq(widths, 1, i - 1))

\* C18: for every opcode and every operand list that matches the declared operand
\* widths with operands in 0..65535, the buffer make builds has 1 + sum(widths)
\* bytes, its first byte is decoded by ToOpcode to the same opcode, and the
\* big-endian 16-bit value read at each operand field is the operand.
C18_RoundTrip ==
  MakeCase =>
    /\ Len(make_instructions) = 1 + SumOf(operands_width(make_opcode))
    /\ ToOpcode(make_instructions[1]) = make_opcode
    /\ \A i \in 1..Len(make_operands) :
         read_uint16(make_instructions, FieldOffset(operands_width(make_opcode), i))
           = make_operands[i]

C18_Witness ==
  /\ MakeCase
  /\ make_opcode = "LoadConstant"
  /\ make_operands = <<258>>
  /\ make_instructions = <<3, 1, 2>>

\* The expression checked is a binary operation with this operator and both of its
\* operands have a type.
LeftType == check_expression(<<>>, expression.operands[1]).type

RightType == check_expression(<<>>, expression.operands[2]).type

BinaryCase(operators) ==
  /\ check_result # "unchecked"
  /\ expression.node = "BinaryOperation"
  /\ expression.operator \in operators
  /\ LeftType # None
  /\ RightType # None

\* The check gave no type and the checker holds exactly one diagnostic, an
\* InvalidBinaryOp with the operator and the types of the two operands.
OneInvalidBinaryOp ==
  /\ check_result = None
  /\ Len(checker_errors) = 1
  /\ checker_errors[1].kind = "InvalidBinaryOp"
  /\ checker_errors[1].operator = token_to_string(expression.operator)
  /\ checker_errors[1].left_type = LeftType
  /\ checker_errors[1].right_type = RightType

\* C19: when both operands of '+' have a type, the check gives that type if both
\* are Integer, both Float or both String; for every other pair it gives no type
\* and records exactly one InvalidBinaryOp with the operator and both operand types.
C19_Addition ==
  BinaryCase({"Plus"}) =>
    IF LeftType = RightType /\ LeftType \in {"Integer", "Float", "String"}
    THEN check_result = LeftType
    ELSE OneInvalidBinaryOp /\ checker_errors[1].operator = "+"

C19_Witness ==
  /\ BinaryCase({"Plus"})
  /\ expression.operands[1].node = "BooleanLiteral"
  /\ expression.operands[2].node = "BooleanLiteral"
  /\ OneInvalidBinaryOp
  /\ checker_errors[1].left_type = "Bool"

ArithmeticOperators == {"Minus", "Asterisk", "Slash", "Caret"}

OrderingOperators == {"LessThan", "LessThanEqual", "GreaterThan", "GreaterThanEqual"}

\* C20: when both operands have a type, '-', '*', '/' and '^' give the operand type
\* and '<', '<=', '>' and '>=' give Boolean exactly when the two operand types are
\* identical and Integer or Float; in every other case the check gives no type and
\* records exactly one InvalidBinaryOp.
C20_NumericOnly ==
  BinaryCase(ArithmeticOperators \cup OrderingOperators) =>
    IF LeftType = RightType /\ LeftType \in {"Integer", "Float"}
    THEN /\ check_result # None
         /\ expression.operator \in ArithmeticOperators => check_result = LeftType
         /\ expression.operator \in OrderingOperators => check_result = "Bool"
    ELSE OneInvalidBinaryOp

C20_Witness ==
  /\ BinaryCase(OrderingOperators)
  /\ expression.operator = "LessThanEqual"
  /\ expression.operands[1].node = "StringLiteral"
  /\ expression.operands[2].node = "StringLiteral"
  /\ OneInvalidBinaryOp
  /\ checker_errors[1].operator = "<="
  /\ checker_errors[1].right_type = "String"

\* The expression checked is a binary operation of which an operand has no type.
FailedOperandCase ==
  /\ check_result # "unchecked"
  /\ expression.node = "BinaryOperation"
  /\ (LeftType = None \/ RightType = None)

\* The spans of the diagnostics the checker holds.
DiagnosticSpans == {checker_errors[i].span : i \in 1..Len(checker_errors)}

\* C22: if the left or the right operand of a binary expression has no type, the
\* check of the expression gives no type and records no diagnostic for the
\* expression itself, whatever the operator: the diagnostics held are those of the
\* operands.
C22_Propagation ==
  FailedOperandCase =>
    /\ check_result = None
    /\ checker_errors # <<>>
    /\ expression.span \notin DiagnosticSpans
    /\ DiagnosticSpans \subseteq {expression.operands[1].span, expression.operands[2].span}

C22_Witness ==
  /\ FailedOperandCase
  /\ expression.operator = "Caret"
  /\ LeftType = None
  /\ RightType = "Integer"
  /\ check_result = None
  /\ Len(checker_errors) = 1
  /\ checker_errors[1].span = expression.operands[1].span

\* Both operands of the binary operation checked are ill-typed operations.
BothIllTypedCase ==
  /\ check_result # "unchecked"
  /\ expression.node = "BinaryOperation"
  /\ expression.operands[1].node = "BinaryOperation"
  /\ expression.operands[2].node = "BinaryOperation"
  /\ LeftType = None
  /\ RightType = None

\* C23: an InvalidBinaryOp does not stop the pass: when the left and the right
\* operand of one binary expression are both ill-typed operations, the checker holds
\* a diagnostic for each of them after the check.
C23_BothReported ==
  BothIllTypedCase =>
    /\ expression.operands[1].span \in DiagnosticSpans
    /\ expression.operands[2].span \in DiagnosticSpans

\* The offsets at which an instruction of the stream starts, from `at` on, and the
\* offset at which the stream ends.
RECURSIVE Frames(_, _)
Frames(ins, at) ==
  IF at >= Len(ins) THEN {at}
  ELSE {at} \cup Frames(ins, at + 1 + SumOf(operands_width(ToOpcode(ins[at + 1]))))

\* C24: after an instruction at ip has executed successfully and was not Halt, the
\* next opcode is fetched at ip + 1 + the sum of its operand widths (ip + 3 after
\* LoadConstant and LoadString, ip + 1 after every other opcode), so the loop never
\* decodes an operand byte as an opcode; ip never decreases, an instruction is
\* executed only at an ip below the length n of the stream and each successful one
\* moves ip forward, so at most n instructions are executed; the execution ends.
C24_Framing ==
  /\ [](status = "running" => ip \in Frames(instructions, 0))
  /\ [](ip <= Len(instructions))
  /\ [][ip' >= ip]_vars
  /\ [][(OpAtIp # "none" /\ status' = "running") =>
          /\ ip' = ip + 1 + SumOf(operands_width(OpAtIp))
          /\ OpAtIp \in {"LoadConstant", "LoadString"} => ip' = ip + 3
          /\ OpAtIp \notin {"LoadConstant", "LoadString"} => ip' = ip + 1]_vars
  /\ <>(status # "running")

C24_Witness ==
  /\ Len(instructions) >= 4
  /\ ToOpcode(instructions[1]) = "LoadConstant"
  /\ status = "running"
  /\ ip = 3
  /\ Len(stack) = 1

\* C25: no instruction changes the instruction bytes or the constant pool; the
\* string table changes only when Add runs on two String operands, and then by one
\* entry appended at its end, so every entry keeps its index and its text; every
\* other opcode leaves the string table as it is.
C25_Frame ==
  /\ [][instructions' = instructions /\ constants' = constants]_vars
  /\ [][string_table' # string_table =>
          /\ OpAtIp = "Add"
          /\ Len(stack) >= 2
          /\ LeftOperand.value.t = "String"
          /\ RightOperand.value.t = "String"
          /\ Len(string_table') = Len(string_table) + 1
          /\ SubSeq(string_table', 1, Len(string_table)) = string_table]_vars
  /\ [][OpAtIp # "Add" => string_table' = string_table]_vars

\* An Add of two Strings has appended its text to the table of four entries.
C25_Witness ==
  /\ Len(string_table) = Len(StringTable) + 1
  /\ SubSeq(string_table, 1, Len(StringTable)) = StringTable
  /\ status = "running"
  /\ Len(stack) = 1
  /\ Top(stack).value = StringLiteral(Len(StringTable))

LoadOpcodes == {"LoadConstant", "LoadString", "LoadNil", "LoadBoolTrue", "LoadBoolFalse"}

\* The first k slots of a stack.
Below(stk, k) == SubSeq(stk, 1, k)

\* C26: a successful LoadConstant, LoadString, LoadNil, LoadBoolTrue or LoadBoolFalse
\* makes the stack one slot longer; a successful binary arithmetic or comparison
\* opcode makes it one slot shorter and never fails with StackOverflow; UnaryNegate
\* and UnaryNot keep the length and change the top slot only; Pop makes it one slot
\* shorter; the slots below the operands consumed stay as they are.
C26_StackEffect ==
  /\ [][(OpAtIp # "none" /\ status' = "running") =>
          LET n == Len(stack)
          IN  /\ OpAtIp \in LoadOpcodes =>
                   Len(stack') = n + 1 /\ Below(stack', n) = stack
              /\ OpAtIp \in ArithmeticOpcodes \cup CompareOpcodes =>
                   /\ n >= 2
                   /\ Len(stack') = n - 1
                   /\ Below(stack', n - 2) = Below(stack, n - 2)
              /\ OpAtIp \in {"UnaryNegate", "UnaryNot"} =>
                   /\ n >= 1
                   /\ Len(stack') = n
                   /\ Below(stack', n - 1) = Below(stack, n - 1)
              /\ OpAtIp = "Pop" =>
                   n >= 1 /\ stack' = Below(stack, n - 1)]_vars
  /\ [][(OpAtIp \in ArithmeticOpcodes \cup CompareOpcodes)
          => (error'.kind # "StackOverflow")]_vars

\* A Multiply on a full stack has left its product on a stack of MAX_STACK - 1 slots.
C26_Witness ==
  /\ Len(instructions) = MAX_STACK + 6
  /\ ToOpcode(instructions[MAX_STACK + 5]) = "Multiply"
  /\ status = "running"
  /\ Len(stack) = MAX_STACK - 1
  /\ Top(stack).value = IntegerLiteral(6)
  /\ Below(stack, MAX_STACK - 2) = AfterPushes(MAX_STACK - 2)

\* An arithmetic opcode is at ip over two Integers whose mathematical result is whole
\* and lies outside the signed 32-bit range: its f64 is a finite value beyond the
\* range or has overflowed to an infinity.
IntegerOverflowCase ==
  /\ NumericCase
  /\ BothInteger
  /\ MathWhole(OpAtIp, LeftOperand.value.n, RightOperand.value.n)
  /\ F64Result.k \in {"two31", "bigp", "bign", "pinf", "ninf"}

\* The bound of the 32-bit range nearest to the result.
NearestBound == IF F64Result.k \in {"two31", "bigp", "pinf"} THEN I32_MAX ELSE I32_MIN

\* C27 as stated: when both operands of an arithmetic opcode are Integer and the
\* whole result lies outside the 32-bit range, the value pushed is the Integer of the
\* nearest bound; it is no Float and no error is raised.
C27_AsStated ==
  [][IntegerOverflowCase =>
       /\ status' = "running"
       /\ Top(stack').value = IntegerLiteral(NearestBound)]_vars

\* C27, amended: when both operands of an arithmetic opcode are Integer and the whole
\* result lies outside the 32-bit range, the value pushed is the Integer of the
\* nearest bound when the double-precision result is finite, and the Float infinity
\* of its sign when the double-precision result has overflowed; no error is raised
\* and nothing wraps.
C27_Saturation ==
  [][IntegerOverflowCase =>
       /\ status' = "running"
       /\ F64Result.k \in {"two31", "bigp", "bign"}
            => Top(stack').value = IntegerLiteral(NearestBound)
       /\ F64Result.k \in {"pinf", "ninf"}
            => Top(stack').value = FloatLiteral(F64Result)
       /\ Top(stack').value.t = "Integer"
            => Top(stack').value.n \in {I32_MAX, I32_MIN}]_vars

\* Integer(2147483647) * Integer(2147483647) has left Integer(2147483647).
C27_Witness ==
  /\ constants = PoolInt
  /\ Len(instructions) >= 7
  /\ ToOpcode(instructions[7]) = "Multiply"
  /\ read_uint16(instructions, 1) = 6
  /\ read_uint16(instructions, 4) = 6
  /\ ip = 7
  /\ status = "running"
  /\ Len(stack) = 1
  /\ Top(stack).value = IntegerLiteral(I32_MAX)

\* CompareEqual is at ip over an Integer and a Float of one numeric value.
CrossEqualCase ==
  /\ OpAtIp = "CompareEqual"
  /\ Len(stack) >= 2
  /\ {LeftOperand.value.t, RightOperand.value.t} = {"Integer", "Float"}
  /\ FCompare(as_f64(LeftOperand.value), as_f64(RightOperand.value)) = "eq"

\* C21: the checker gives '==' and '!=' the type Boolean exactly when the two operand
\* types are identical, whatever the type, and answers Integer == Float with an
\* InvalidBinaryOp; the machine's CompareEqual on an Integer and a Float of one
\* numeric value succeeds with Boolean(true).  Both hold of one expression.  (A step
\* that leaves the checker unchanged is a step of the machine.)
C21_EqualityAsymmetry ==
  /\ [](BinaryCase({"Equal", "NotEqual"}) =>
          IF LeftType = RightType
          THEN check_result = "Bool" /\ checker_errors = <<>>
          ELSE OneInvalidBinaryOp)
  /\ [](BinaryCase({"Equal"}) /\ LeftType = "Integer" /\ RightType = "Float"
          => OneInvalidBinaryOp /\ checker_errors[1].operator = "==")
  /\ [][(CrossEqualCase /\ UNCHANGED checker) =>
          /\ status' = "running"
          /\ Len(stack') = Len(stack) - 1
          /\ Top(stack').value = BOOLEAN_TRUE]_vars

\* 2 == 2.0 has been rejected by the checker and its code has run to Boolean(true).
C21_Witness ==
  /\ BinaryCase({"Equal"})
  /\ expression.operands[1].node = "IntegerLiteral"
  /\ expression.operands[1].value = IntegerLiteral(2)
  /\ expression.operands[2].node = "FloatLiteral"
  /\ expression.operands[2].value = FloatLiteral(Fin(2, 1))
  /\ OneInvalidBinaryOp
  /\ checker_errors[1].left_type = "Integer"
  /\ checker_errors[1].right_type = "Float"
  /\ status = "ok"
  /\ last_pop = <<BOOLEAN_TRUE>>

\* The static type the checker gives the expression held, None when it rejects it.
StaticType == check_expression(<<>>, expression).type

\* The machine runs the code of a binary operation that the checker accepts.
AcceptedCase ==
  /\ expression.node = "BinaryOperation"
  /\ StaticType # None

\* C28: when the checker accepts a binary operation, on literals or on nested
\* operations, the run of its code (left operand pushed first, then the right one,
\* then the opcode of the operator) never fails with ArithmeticError or
\* ComparisonOperationError, and the value it leaves is a number for an arithmetic
\* expression, a String for a String addition and a Boolean for a comparison.
C28_AcceptedRuns ==
  /\ [](AcceptedCase =>
          error.kind \notin {"ArithmeticError", "ComparisonOperationError"})
  /\ [](AcceptedCase /\ status # "running" =>
          /\ status = "ok"
          /\ Len(last_pop) = 1
          /\ StaticType \in {"Integer", "Float"} => is_number(last_pop[1])
          /\ StaticType = "String" => last_pop[1].t = "String"
          /\ StaticType = "Bool" => last_pop[1].t = "Boolean")
  /\ [](check_result \notin {"unchecked", None} => check_result = StaticType)

\* 2 / (2 + 2) has the static type Integer and its code has left the Float 0.5.
C28_Witness ==
  /\ AcceptedCase
  /\ expression.operator = "Slash"
  /\ expression.operands[1].node = "IntegerLiteral"
  /\ expression.operands[2].node = "BinaryOperation"
  /\ expression.operands[2].operator = "Plus"
  /\ check_result = "Integer"
  /\ status = "ok"
  /\ last_pop = <<FloatLiteral(Fin(1, 2))>>
====
